---- MODULE Spec2Model ----
(***************************************************************************)
(* Verification model of the WRDS panel pipeline of the wrds-data-pull     *)
(* skill: the Merge & Process stage (merge_utils.py), the Compustat and    *)
(* CRSP puller stages (query_templates.py, crsp_utils.py) and the          *)
(* orchestrator (orchestrator.py).                                         *)
(*                                                                         *)
(* DataFrames are sequences of records (row order is part of the value).   *)
(* A nullable cell is a sequence of length <= 1: <<>> is missing           *)
(* (NaN / None / NaT / <NA>), <<v>> holds v.                               *)
(***************************************************************************)
EXTENDS Integers, Sequences, FiniteSets, TLC

VARIABLES
    \* ---- Merge & Process (merge_and_process_data) ----
    compustat_df,       \* argument: accounting table
    has_datacqtr,       \* argument: 'datacqtr' in compustat_df.columns
    crsp_quarterly_df,  \* argument: <<>> for None, else <<table>>
    linking_csv,        \* rows of crsp-compustat-linking.csv
    mpc,                \* position of merge_and_process_data
    dedup_df,           \* final_df right after drop_duplicates (line 356)
    final_df,           \* the returned DataFrame
    \* ---- pipeline (orchestrator.main and the puller stages) ----
    caller,             \* "main", or pull_crsp_data called on its own:
                        \* "crsp(df)" / "crsp(None)" by its compustat_df
    pc,                 \* the stage about to run, or "done" / "failed"
    REFRESH_DATA,       \* config.REFRESH_DATA
    files,              \* <<stage, format>> -> <<>> (absent) or <<content>>
    open_conns,         \* wrds connections open now
    opened,             \* wrds connections opened so far
    trace,              \* ghost: the events so far, <<stage, event, detail>>
    snap,               \* ghost: stage -> the files as they were at its entry
    ret,                \* stage -> how it ended and what it returned
    \* ---- config.py: the variable-name helpers ----
    vars_list,          \* argument: a list of variable names
    quarterly_vars,     \* <<>> or <<add_quarterly_suffix(vars_list)>>
    annual_vars,        \* <<>> or <<get_annual_compatible_vars(vars_list)>>
    annual_vars_twice,  \* <<>> or <<the same function applied to annual_vars>>
    \* ---- crsp_utils.py: the quarterly aggregation ----
    crsp_identifiers,   \* the monthly CRSP table (queried or read from pickle)
    crsp_quarterly,     \* <<>> or <<the aggregated table>>
    \* ---- panel_diagnostics.py: winsorize_variable ----
    variable_series,    \* argument: df[variable], a column of cells
    percentiles,        \* arguments: <<lower, upper>> in percent
    winsorized,         \* <<>> or <<the returned Series>>
    \* ---- merge_and_process_data: ratios, winsorization, infinities ----
    acct_df,            \* the accounting columns atq, oibdpq of final_df
    numpy_lerp,         \* how the installed numpy interpolates a quantile
    ratio_df,           \* final_df after the ratio step (line 588)
    winsor_df,          \* final_df after winsorization (line 689)
    clean_df,           \* <<>> or <<final_df after the replacement at line 700>>
    final_files,        \* format -> <<>> or <<the frame written to the final file>>
    returned_df,        \* <<>> or <<the frame returned at line 794>>
    \* ---- merge_and_process_data: which ratio columns are derived ----
    input_cols,         \* columns of final_df before line 394
    output_cols,        \* <<>> or <<columns of final_df after line 588>>
    derive_raised,      \* an exception left the derivation
    \* ---- panel_diagnostics.py: check_panel_balance ----
    panel_df,           \* argument: the rows <<unit, period>> of the panel
    balance,            \* <<>> or <<the dictionary returned>>
    \* ---- query_templates.py: the column list of the Compustat SELECT ----
    requested_cols,     \* the variable list handed to _filter_available_columns
    table_fields,       \* conn.list_table_fields(library, table)
    select_cols,        \* <<>> or <<the columns placed in the SELECT>>
    filter_warned,      \* the "dropping ..." warning was printed
    pull_failed,        \* an exception left the pull
    \* ---- two invocations of a puller stage on one output directory ----
    conc_stage,         \* the stage both invocations are in
    conc_refresh,       \* config.REFRESH_DATA
    conc_files0,        \* the stage's cache files before the invocations
    conc_files,         \* <<stage, format>> -> <<>> or <<content>>, now
    run,                \* invocation -> its position [pc, i]
    in_progress,        \* format -> the invocations writing the file now
    overlapped,         \* invocation -> its write in progress met another
    last_write,         \* ghost: format -> <<>> or <<the write that ended last>>
    \* ---- pull_crsp_data called twice on one output directory ----
    pair_args,          \* the compustat_df of each call: <<>> for None, else
                        \* <<the CUSIPs of its cusip column>>
    pair_refresh,       \* config.REFRESH_DATA
    pair_compustat,     \* COMPUSTAT_RAW_FILE: <<>> or <<the CUSIPs in it>>
    pair_cache0,        \* CRSP_RAW_FILE before the calls: <<>> or <<monthly table>>
    pair_cache,         \* CRSP_RAW_FILE now
    pair_results        \* <<>> or the results of the two calls

mergeVars == <<compustat_df, has_datacqtr, crsp_quarterly_df, linking_csv,
               mpc, dedup_df, final_df>>
pipeVars  == <<caller, pc, REFRESH_DATA, files, open_conns, opened, trace, snap, ret>>
cfgVars   == <<vars_list, quarterly_vars, annual_vars, annual_vars_twice>>
aggVars   == <<crsp_identifiers, crsp_quarterly>>
wvVars    == <<variable_series, percentiles, winsorized>>
ratioVars == <<acct_df, numpy_lerp, ratio_df, winsor_df, clean_df, final_files, returned_df>>
deriveVars == <<input_cols, output_cols, derive_raised>>
balanceVars == <<panel_df, balance>>
filterVars == <<requested_cols, table_fields, select_cols, filter_warned, pull_failed>>
concVars  == <<conc_stage, conc_refresh, conc_files0, conc_files, run,
               in_progress, overlapped, last_write>>
pairVars  == <<pair_args, pair_refresh, pair_compustat, pair_cache0, pair_cache,
               pair_results>>
moreVars  == <<deriveVars, balanceVars, filterVars, concVars, pairVars>>
fnVars    == <<cfgVars, aggVars, wvVars, ratioVars, moreVars>>
vars      == <<mergeVars, pipeVars, fnVars>>

-----------------------------------------------------------------------------
(* Nullable cells *)

NA        == <<>>
Some(v)   == <<v>>
IsNA(c)   == c = <<>>
NotNA(c)  == c # <<>>
Val(c)    == c[1]

(* Sequence helpers *)

SeqToSet(s) == { s[i] : i \in 1..Len(s) }

RECURSIVE Concat(_)
Concat(ss) == IF ss = <<>> THEN <<>> ELSE Head(ss) \o Concat(Tail(ss))

Max2(a, b) == IF a >= b THEN a ELSE b
Min2(a, b) == IF a <= b THEN a ELSE b

-----------------------------------------------------------------------------
(***************************************************************************)
(* Bounds of the model and the input domains of merge_and_process_data.    *)
(*                                                                         *)
(* A date is a day index 1..MaxDate; DatesPerQuarter consecutive indices   *)
(* fall in one calendar quarter (two month-ends of the same quarter).      *)
(***************************************************************************)
MaxAcct         == 2    \* rows of the accounting table
MaxLinks        == 2    \* rows of the crosswalk file
MaxDate         == 3    \* report dates 1..MaxDate
DatesPerQuarter == 2

Dates   == 1..MaxDate
Gvkeys  == {"A", "B"}
Permnos == {1, 2}

\* pandas .dt.year / .dt.quarter of a date
DtYear(d)    == 1 + (((d - 1) \div DatesPerQuarter) \div 4)
DtQuarter(d) == 1 + (((d - 1) \div DatesPerQuarter) % 4)

\* A datacqtr string "YYYYQN" is held as the list of its 'Q'-separated integer
\* fields: "1Q2" is <<1, 2>>; <<1>> is a string without a 'Q'.
\* Firm A reports with and without a calendar-quarter string, firm B (on the
\* first and the last date) without one or with a malformed one; one row has
\* a missing gvkey.
AcctRows ==
    { [gvkey |-> Some("A"), datadate |-> d, datacqtr |-> c] :
          d \in Dates, c \in {NA, Some(<<1, 2>>)} }
    \cup { [gvkey |-> Some("B"), datadate |-> d, datacqtr |-> NA] : d \in {1, MaxDate} }
    \cup { [gvkey |-> Some("B"), datadate |-> 1, datacqtr |-> Some(<<1>>)],
           [gvkey |-> NA, datadate |-> 1, datacqtr |-> NA] }

\* Raw LINKDT / LINKENDDT cells of the CSV: a date string, the sentinel 'E',
\* or an empty cell (NaN).
DateStr(d) == [k |-> "date", d |-> d]
EStr       == [k |-> "E", d |-> 0]
NaNStr     == [k |-> "nan", d |-> 0]

\* Crosswalk rows: A -> 1 for the whole sample, A -> 2 on date 2 only,
\* B -> 2 from date 2 on.
LinkRows ==
    { [gvkey |-> "A", LPERMNO |-> 1, LINKDT |-> NaNStr, LINKENDDT |-> EStr],
      [gvkey |-> "A", LPERMNO |-> 2, LINKDT |-> DateStr(2), LINKENDDT |-> DateStr(2)],
      [gvkey |-> "B", LPERMNO |-> 2, LINKDT |-> DateStr(2), LINKENDDT |-> EStr] }

\* A row of the CRSP quarterly table as pull_crsp_data returns it: one row per
\* (permno, year, quarter), mktcap_crsp = |prc| * shrout * 1000.
CrspRow(p, q) ==
    [permno |-> p, year |-> 1, quarter |-> q,
     prc |-> Some(10 * p + q), ret_quarterly |-> Some(q), shrout |-> Some(p),
     mktcap_crsp |-> Some((10 * p + q) * p * 1000)]

CrspTables ==
    { <<CrspRow(1, 1)>>,
      <<CrspRow(1, 1), CrspRow(1, 2), CrspRow(2, 1), CrspRow(2, 2)>> }

SeqsUpTo(S, n) == UNION { [1..k -> S] : k \in 0..n }

-----------------------------------------------------------------------------
(* merge_utils.py *)

\* parse_date_safe: NaN -> None, 'E' -> a far-future timestamp (year 2100),
\* a date string -> its date.  The far future lies beyond every report date.
FarFuture == MaxDate + 1
parse_date_safe(date_str) ==
    CASE date_str.k = "nan"  -> NA
      [] date_str.k = "E"    -> Some(FarFuture)
      [] date_str.k = "date" -> Some(date_str.d)

\* Series.astype(str).str.strip() on the gvkey column: a missing value becomes
\* the string 'None' (the module itself undoes 'nan' / '<NA>' strings made by
\* astype(str) before the Stata export).
AsStrStrip(cell) == IF IsNA(cell) THEN Some("None") ELSE cell

\* load_linking_table: one row of the returned frame per CSV row
load_linking_row(r) ==
    [gvkey            |-> Val(AsStrStrip(Some(r.gvkey))),
     permno           |-> Some(r.LPERMNO),
     LINKDT_parsed    |-> parse_date_safe(r.LINKDT),
     LINKENDDT_parsed |-> parse_date_safe(r.LINKENDDT)]
load_linking_table(csv) == [i \in 1..Len(csv) |-> load_linking_row(csv[i])]

\* parse_datacqtr: (year, quarter) of a well-formed string, else (None, None)
parse_datacqtr(cell) ==
    IF IsNA(cell) THEN <<NA, NA>>
    ELSE IF Len(Val(cell)) = 2 THEN <<Some(Val(cell)[1]), Some(Val(cell)[2])>>
         ELSE <<NA, NA>>

\* lines 141-188: the (year, quarter) of an accounting row
TimeVars(r, hasCqtr) ==
    LET p == parse_datacqtr(r.datacqtr)
        missing == IsNA(p[1]) \/ IsNA(p[2])
    IN IF hasCqtr /\ ~missing
       THEN [year |-> Val(p[1]), quarter |-> Val(p[2])]
       ELSE [year |-> DtYear(r.datadate), quarter |-> DtQuarter(r.datadate)]

WithTimeVars(df, hasCqtr) ==
    [i \in 1..Len(df) |->
        [gvkey |-> df[i].gvkey, datadate |-> df[i].datadate,
         year |-> TimeVars(df[i], hasCqtr).year,
         quarter |-> TimeVars(df[i], hasCqtr).quarter]]

\* A row with no crosswalk / CRSP columns filled (left join without a match;
\* also the shape of the frame when no CRSP data is supplied, where these
\* columns do not exist and read as missing).
NoLink == [permno |-> NA, LINKDT_parsed |-> NA, LINKENDDT_parsed |-> NA]
NoCrsp == [prc |-> NA, ret_quarterly |-> NA, shrout |-> NA, mktcap_crsp |-> NA]

LinkedRow(r, l) ==
    [gvkey |-> r.gvkey, datadate |-> r.datadate, year |-> r.year,
     quarter |-> r.quarter, permno |-> l.permno,
     LINKDT_parsed |-> l.LINKDT_parsed, LINKENDDT_parsed |-> l.LINKENDDT_parsed]

\* lines 228-234: pd.merge(final_df, linking_df, on='gvkey', how='left').
\* Left order is kept; a left row with k > 0 matches yields k rows, in the
\* order of the right frame; with no match it yields one row with NaN.
\* a variant of the join that finds no crosswalk row
MergeLinksRow_unlinked(r, linking_df) == <<LinkedRow(r, NoLink)>>

MergeLinksRow(r, linking_df) ==
    LET hits == SelectSeq(linking_df, LAMBDA l : Some(l.gvkey) = r.gvkey)
    IN IF hits = <<>> THEN <<LinkedRow(r, NoLink)>>
       ELSE [j \in 1..Len(hits) |-> LinkedRow(r, hits[j])]
MergeLinks(df, linking_df) ==
    Concat([i \in 1..Len(df) |-> MergeLinksRow(df[i], linking_df)])

\* lines 242-260: the date-validity mask of a linked row.  The mask is
\* computed and reported; no later statement reads it.
date_valid_mask(r) ==
    /\ (IsNA(r.LINKDT_parsed) \/ r.datadate >= Val(r.LINKDT_parsed))
    /\ (IsNA(r.LINKENDDT_parsed) \/ r.datadate <= Val(r.LINKENDDT_parsed))
valid_link_mask(r) == NotNA(r.permno) /\ date_valid_mask(r)

MergedRow(r, c) ==
    [gvkey |-> r.gvkey, datadate |-> r.datadate, year |-> r.year,
     quarter |-> r.quarter, permno |-> r.permno,
     prc |-> c.prc, ret_quarterly |-> c.ret_quarterly, shrout |-> c.shrout,
     mktcap_crsp |-> c.mktcap_crsp]

\* lines 277-283: pd.merge(final_df_with_links, crsp_quarterly_df,
\* on=['permno', 'year', 'quarter'], how='left'), then the LINKDT_parsed /
\* LINKENDDT_parsed columns are dropped (lines 292-295).
MergeCrspRow(r, crsp) ==
    LET hits == SelectSeq(crsp, LAMBDA c : /\ Some(c.permno) = r.permno
                                           /\ c.year = r.year
                                           /\ c.quarter = r.quarter)
    IN IF hits = <<>> THEN <<MergedRow(r, NoCrsp)>>
       ELSE [j \in 1..Len(hits) |-> MergedRow(r, hits[j])]
MergeCrsp(df, crsp) ==
    Concat([i \in 1..Len(df) |-> MergeCrspRow(df[i], crsp)])

\* Python's order of the gvkey strings ('A' < 'B' < 'None'); NaN sorts last
\* (na_position='last').
GvkeyOrd(cell) ==
    IF IsNA(cell) THEN 4
    ELSE CASE Val(cell) = "A" -> 1 [] Val(cell) = "B" -> 2 [] OTHER -> 3

KeyLess(a, b) ==
    \/ GvkeyOrd(a.gvkey) < GvkeyOrd(b.gvkey)
    \/ (GvkeyOrd(a.gvkey) = GvkeyOrd(b.gvkey) /\ a.datadate < b.datadate)

\* sort_values(['gvkey', 'datadate']): a stable sort (lexsort on two keys)
RECURSIVE InsertRow(_, _)
InsertRow(sorted, r) ==
    IF sorted = <<>> THEN <<r>>
    ELSE LET n == Len(sorted)
         IN IF KeyLess(r, sorted[n])
            THEN Append(InsertRow(SubSeq(sorted, 1, n - 1), r), sorted[n])
            ELSE Append(sorted, r)
RECURSIVE sort_values(_)
sort_values(df) ==
    IF df = <<>> THEN <<>>
    ELSE InsertRow(sort_values(SubSeq(df, 1, Len(df) - 1)), df[Len(df)])

\* a variant in which the duplicate removal is skipped
drop_duplicates_skipped(df) == df

\* drop_duplicates(subset=['gvkey', 'datadate']): keep the first occurrence
RECURSIVE drop_duplicates(_)
drop_duplicates(df) ==
    IF df = <<>> THEN <<>>
    ELSE LET n == Len(df)
             front == drop_duplicates(SubSeq(df, 1, n - 1))
         IN IF \E j \in 1..(n - 1) : /\ df[j].gvkey = df[n].gvkey
                                     /\ df[j].datadate = df[n].datadate
            THEN front ELSE Append(front, df[n])

\* line 374: final_df[final_df['gvkey'].notna()]
DropMissingGvkey(df) == SelectSeq(df, LAMBDA r : NotNA(r.gvkey))

\* Winsorization (lines 665-689).  Quantiles are linear interpolations between
\* order statistics, so the winsorized columns are held in hundredths: a cell
\* <<v>> of a winsorized column stands for v / 100.
PctScale == 100
LowerPct == 1
UpperPct == 99

RECURSIVE InsertInt(_, _)
InsertInt(sorted, x) ==
    IF sorted = <<>> THEN <<x>>
    ELSE LET n == Len(sorted)
         IN IF x < sorted[n]
            THEN Append(InsertInt(SubSeq(sorted, 1, n - 1), x), sorted[n])
            ELSE Append(sorted, x)
RECURSIVE SortInts(_)
SortInts(xs) ==
    IF xs = <<>> THEN <<>>
    ELSE InsertInt(SortInts(SubSeq(xs, 1, Len(xs) - 1)), xs[Len(xs)])

\* the non-missing values of a column, ascending
NonMissing(cells) ==
    LET present == SelectSeq(cells, NotNA)
    IN SortInts([i \in 1..Len(present) |-> Val(present[i])])

\* Series.quantile(pct / 100) in hundredths, for a non-empty ascending list
quantile(sorted, pct) ==
    LET h   == pct * (Len(sorted) - 1)
        lo  == h \div PctScale
        rem == h % PctScale
    IN PctScale * sorted[lo + 1]
         + (IF rem = 0 THEN 0 ELSE rem * (sorted[lo + 2] - sorted[lo + 1]))

\* Series.clip(lower, upper) of one cell, in hundredths; NaN stays NaN
clip_upper_only(cell, lower, upper) ==
    IF IsNA(cell) THEN NA ELSE Some(Min2(upper, PctScale * Val(cell)))
clip(cell, lower, upper) ==
    IF IsNA(cell) THEN NA
    ELSE Some(Max2(lower, Min2(upper, PctScale * Val(cell))))

\* lines 680-689 for one column
WinsorizeColumn(cells) ==
    LET sorted == NonMissing(cells)
    IN IF sorted = <<>> THEN cells
       ELSE [i \in 1..Len(cells) |->
                clip(cells[i], quantile(sorted, LowerPct), quantile(sorted, UpperPct))]

Column(df, col) == [i \in 1..Len(df) |-> df[i][col]]

\* lines 668-675: the numeric columns outside exclude_cols.  gvkey (a string),
\* datadate, year and quarter are not winsorized; permno is numeric and is
\* not in exclude_cols.
winsorize_cols == {"permno", "prc", "ret_quarterly", "shrout", "mktcap_crsp"}

Winsorize(df) ==
    LET w == [c \in winsorize_cols |-> WinsorizeColumn(Column(df, c))]
    IN [i \in 1..Len(df) |->
          [gvkey |-> df[i].gvkey, datadate |-> df[i].datadate,
           year |-> df[i].year, quarter |-> df[i].quarter,
           permno |-> w["permno"][i], prc |-> w["prc"][i],
           ret_quarterly |-> w["ret_quarterly"][i], shrout |-> w["shrout"][i],
           mktcap_crsp |-> w["mktcap_crsp"][i]]]

\* lines 134-360: the frame after the duplicate-removal step
\* (crsp is <<>> for crsp_quarterly_df=None, else <<table>>)
Deduplicated(df, hasCqtr, crsp, csv) ==
    LET timed  == WithTimeVars(df, hasCqtr)
        merged ==
            IF IsNA(crsp)
            THEN [i \in 1..Len(timed) |-> MergedRow(LinkedRow(timed[i], NoLink), NoCrsp)]
            ELSE LET keyed == [i \in 1..Len(timed) |->
                                 [timed[i] EXCEPT !.gvkey = AsStrStrip(@)]]
                 IN MergeCrsp(MergeLinks(keyed, load_linking_table(csv)), Val(crsp))
    IN drop_duplicates(sort_values(sort_values(merged)))

\* lines 362-553: the rows that go on to winsorization, given the frame after
\* duplicate removal.  has_cheq: the cash and asset columns are present, so
\* the frame is sorted again before the lagged-asset ratio (lines 544-548).
Lagged(dedup, has_cheq) ==
    LET kept == DropMissingGvkey(dedup)
    IN IF has_cheq THEN sort_values(kept) ELSE kept

-----------------------------------------------------------------------------
(* States of the pipeline part while only merge_and_process_data is studied *)
CfgIdle ==
    /\ vars_list = <<>> /\ quarterly_vars = <<>>
    /\ annual_vars = <<>> /\ annual_vars_twice = <<>>

AggIdle == crsp_identifiers = <<>> /\ crsp_quarterly = <<>>

WvIdle == variable_series = <<>> /\ percentiles = <<>> /\ winsorized = <<>>

RatioIdle ==
    /\ acct_df = <<>> /\ numpy_lerp = "" /\ ratio_df = <<>> /\ winsor_df = <<>>
    /\ clean_df = <<>> /\ final_files = <<>> /\ returned_df = <<>>

DeriveIdle == input_cols = {} /\ output_cols = <<>> /\ derive_raised = FALSE

BalanceIdle == panel_df = {} /\ balance = <<>>

FilterIdle ==
    /\ requested_cols = <<>> /\ table_fields = {} /\ select_cols = <<>>
    /\ filter_warned = FALSE /\ pull_failed = FALSE

ConcIdle ==
    /\ conc_stage = "" /\ conc_refresh = FALSE /\ conc_files0 = <<>>
    /\ conc_files = <<>> /\ run = <<>> /\ in_progress = <<>>
    /\ overlapped = <<>> /\ last_write = <<>>

PairIdle ==
    /\ pair_args = <<>> /\ pair_refresh = FALSE /\ pair_compustat = <<>>
    /\ pair_cache0 = <<>> /\ pair_cache = <<>> /\ pair_results = <<>>

MoreIdle == DeriveIdle /\ BalanceIdle /\ FilterIdle /\ ConcIdle /\ PairIdle

FnIdle == CfgIdle /\ AggIdle /\ WvIdle /\ RatioIdle /\ MoreIdle

PipeIdle ==
    /\ caller = "none" /\ pc = "idle" /\ REFRESH_DATA = FALSE /\ files = <<>>
    /\ open_conns = 0 /\ opened = 0 /\ trace = <<>> /\ snap = <<>> /\ ret = <<>>

InitMerge ==
    /\ has_datacqtr \in BOOLEAN
    /\ compustat_df \in SeqsUpTo(AcctRows, MaxAcct)
    /\ (~has_datacqtr => \A i \in 1..Len(compustat_df) : IsNA(compustat_df[i].datacqtr))
    /\ crsp_quarterly_df \in {NA} \cup { Some(t) : t \in CrspTables }
    /\ linking_csv \in SeqsUpTo(LinkRows, MaxLinks)
    /\ (IsNA(crsp_quarterly_df) => linking_csv = <<>>)
    /\ mpc = "call"
    /\ dedup_df = <<>>
    /\ final_df = <<>>
    /\ PipeIdle
    /\ FnIdle

\* merge_and_process_data(config, compustat_df, crsp_quarterly_df), up to the
\* returned DataFrame
MergeAndProcess ==
    /\ mpc = "call"
    /\ LET dedup == Deduplicated(compustat_df, has_datacqtr,
                                 crsp_quarterly_df, linking_csv)
       IN /\ dedup_df' = dedup
          /\ \E lagged \in { Lagged(dedup, has_cheq) : has_cheq \in BOOLEAN } :
                final_df' = Winsorize(lagged)
    /\ mpc' = "returned"
    /\ UNCHANGED <<compustat_df, has_datacqtr, crsp_quarterly_df, linking_csv>>
    /\ UNCHANGED pipeVars
    /\ UNCHANGED fnVars

NextMerge == MergeAndProcess
SpecMerge == InitMerge /\ [][NextMerge]_vars

-----------------------------------------------------------------------------
(***************************************************************************)
(* The pipeline: orchestrator.main, the Compustat pullers                  *)
(* (query_templates.py), the CRSP puller (crsp_utils.py) and the file and  *)
(* connection effects of merge_and_process_data.                           *)
(*                                                                         *)
(* A DataFrame is an opaque token here: where it comes from ("old": a file *)
(* left by an earlier run, "new": a query of this run) and whether it has  *)
(* no rows.  What the environment does (a query or the Stata export        *)
(* failing, a result without rows) is chosen in the stage's action.        *)
(***************************************************************************)
PullerStages == {"annual", "quarterly", "crsp"}
Formats      == {"pkl", "csv", "dta"}
FileNames    ==
    (PullerStages \X Formats) \cup ({"final"} \X Formats)
    \cup {<<"company", "pkl">>, <<"company", "csv">>, <<"linking", "csv">>}

Data(origin, empty) == [origin |-> origin, empty |-> empty]

\* what a stage returns: None, or a DataFrame derived from a data token
NoneValue        == [kind |-> "None", origin |-> "none", empty |-> TRUE]
Frame(kind, d)   == [kind |-> kind, origin |-> d.origin, empty |-> d.empty]
\* lines 257-258 / 341-342: to_datetime and sort_values of the raw frame
SortedFrame(d)    == Frame("sorted", d)
\* crsp_utils.py lines 144-204: the quarterly aggregate of the monthly frame
QuarterlyFrame(d) == Frame("quarterly", d)

Ev(stage, ev, detail) == <<stage, ev, detail>>

\* the cache test of a puller stage (query_templates.py 200 / 284,
\* crsp_utils.py 47): REFRESH_DATA or not <pickle>.exists()
CacheMiss_refresh_only(refresh, fs, stage) == refresh
CacheMiss_always(refresh, fs, stage) == TRUE
CacheMiss(refresh, fs, stage) == refresh \/ IsNA(fs[<<stage, "pkl">>])

\* is an exception of DataFrame.to_stata caught where the stage writes its
\* files?  _save_data_files (query_templates.py 174-179) and pull_crsp_data
\* (crsp_utils.py 133-138) wrap it in try/except; merge_and_process_data
\* calls it bare (merge_utils.py 738).
stata_failure_caught_nowhere(stage) == FALSE
stata_failure_caught(stage) == stage \in PullerStages

\* the order in which a stage writes its three files
\* (_save_data_files 167-175, crsp_utils.py 97-134, merge_utils.py 714-742)
WriteOrder(stage) ==
    IF stage = "final" THEN <<"csv", "dta", "pkl">> ELSE <<"pkl", "csv", "dta">>

\* Outcomes of the Stata export: written, or to_stata raised and the .dta is
\* as it was, or to_stata raised and the partly written .dta was removed.
StataOutcomes == {"ok", "fail_kept", "fail_removed"}

\* The writes of a stage from format list fmts on: the files afterwards, the
\* events, and whether an exception left the stage.
RECURSIVE SaveFrom(_, _, _, _, _)
SaveFrom(stage, fmts, fs, d, stata) ==
    IF fmts = <<>> THEN [files |-> fs, events |-> <<>>, raised |-> FALSE]
    ELSE IF Head(fmts) = "dta" /\ stata # "ok"
    THEN LET fs1 == IF stata = "fail_removed"
                    THEN [fs EXCEPT ![<<stage, "dta">>] = NA] ELSE fs
             rest == SaveFrom(stage, Tail(fmts), fs1, d, stata)
         IN IF stata_failure_caught(stage)
            THEN [files |-> rest.files,
                  events |-> <<Ev(stage, "dta_failed", "caught")>> \o rest.events,
                  raised |-> rest.raised]
            ELSE [files |-> fs1,
                  events |-> <<Ev(stage, "dta_failed", "raised")>>,
                  raised |-> TRUE]
    ELSE LET rest == SaveFrom(stage, Tail(fmts),
                              [fs EXCEPT ![<<stage, Head(fmts)>>] = Some(d)], d, stata)
         IN [files |-> rest.files,
             events |-> <<Ev(stage, "write", Head(fmts))>> \o rest.events,
             raised |-> rest.raised]

SaveFiles(stage, fs, d, stata) == SaveFrom(stage, WriteOrder(stage), fs, d, stata)

\* The database calls of a puller stage, in order.  The Compustat pullers
\* look up the company schema, query the company table, look up the table
\* schema and run the data query; the CRSP puller runs one query.  A schema
\* lookup is one call: conn.list_table_fields, or conn.get_table(obs=0)
\* where the installed wrds has no list_table_fields (lines 28-32, 56-59).
Queries(stage) ==
    IF stage = "crsp" THEN <<"data">>
    ELSE <<"company_schema", "company", "table_schema", "data">>

\* where a live pull can fail: at wrds.Connection(), at one of its queries,
\* or nowhere
FailPoints(stage) == {"connect"} \cup SeqToSet(Queries(stage)) \cup {"nowhere"}

\* what a query that raises leaves behind: the exception, and nothing else
\* (no except clause around the queries repeats one)
FailedQuery_retried(stage, q) ==
    <<Ev(stage, "query_failed", q), Ev(stage, "query", q)>>
FailedQuery(stage, q) == <<Ev(stage, "query_failed", q)>>

\* the events of the queries up to and including the one that fails
RECURSIVE QueryEvents(_, _, _)
QueryEvents(stage, qs, fail) ==
    IF qs = <<>> THEN <<>>
    ELSE IF Head(qs) = fail THEN FailedQuery(stage, Head(qs))
    ELSE <<Ev(stage, "query", Head(qs))>> \o QueryEvents(stage, Tail(qs), fail)

\* The events of a live pull that runs to its end, q being the events of
\* its queries and w those of its writes: wrds.Connection() (204 / 288,
\* crsp_utils.py 61), the queries, conn.close() (241 / 325, crsp_utils.py
\* 93), then the files (244 / 328, crsp_utils.py 97-138).
PullEvents_close_last(stage, q, w) ==
    <<Ev(stage, "connect", "")>> \o q \o w \o <<Ev(stage, "close", "")>>
PullEvents(stage, q, w) ==
    <<Ev(stage, "connect", "")>> \o q \o <<Ev(stage, "close", "")>> \o w

\* The connections a live pull leaves open when it ends after its
\* connection was made.  conn.close() is a plain statement after the data
\* query, in no finally clause: an exception before it skips it.
connections_left_open_closed_in_finally(stage, fail) == 0
connections_left_open_never_closed(stage, fail) == 1
connections_left_open(stage, fail) == IF fail = "nowhere" THEN 0 ELSE 1

\* the files when a query of the stage raised: no write precedes the
\* queries
files_after_failed_query_pickle_first(stage, fs) ==
    [fs EXCEPT ![<<stage, "pkl">>] = Some(Data("new", TRUE))]
files_after_failed_query(stage, fs) == fs

\* The body of a puller stage after its cache test (and, for the CRSP stage,
\* after compustat_df is settled).  Result: files, events, connections opened
\* and left open, value returned (<<>> when an exception leaves the stage).
LivePull(stage, fs, fail, empty, stata) ==
    IF fail = "connect"
    THEN [files |-> fs, events |-> <<Ev(stage, "connect_failed", "")>>,
          opened |-> 0, leaked |-> 0, value |-> NA]
    ELSE IF fail # "nowhere"
    THEN [files |-> files_after_failed_query(stage, fs),
          events |-> <<Ev(stage, "connect", "")>> \o QueryEvents(stage, Queries(stage), fail),
          opened |-> 1, leaked |-> connections_left_open(stage, fail), value |-> NA]
    ELSE LET d     == Data("new", empty)
             saved == SaveFiles(stage, fs, d, stata)
         IN [files |-> saved.files,
             events |-> PullEvents(stage, QueryEvents(stage, Queries(stage), fail),
                                   saved.events),
             opened |-> 1, leaked |-> connections_left_open(stage, fail),
             value |-> IF saved.raised THEN NA
                       ELSE Some(IF stage = "crsp" THEN QuarterlyFrame(d)
                                 ELSE SortedFrame(d))]

\* pd.read_pickle of the stage's cache: raises when the file is absent
CachedPull(stage, fs) ==
    IF IsNA(fs[<<stage, "pkl">>])
    THEN [files |-> fs, events |-> <<Ev(stage, "read_failed", "pkl")>>,
          opened |-> 0, leaked |-> 0, value |-> NA]
    ELSE [files |-> fs, events |-> <<Ev(stage, "read", "pkl")>>,
          opened |-> 0, leaked |-> 0,
          value |-> Some(IF stage = "crsp"
                         THEN QuarterlyFrame(Val(fs[<<stage, "pkl">>]))
                         ELSE SortedFrame(Val(fs[<<stage, "pkl">>])))]

\* pull_compustat_annual / pull_compustat_quarterly (query_templates.py
\* 182-263, 266-347)
PullCompustatRun(stage, refresh, fs, fail, empty, stata) ==
    IF CacheMiss(refresh, fs, stage)
    THEN LivePull(stage, fs, fail, empty, stata)
    ELSE CachedPull(stage, fs)

\* crsp_utils.py 51-58: with compustat_df=None the Compustat cache
\* (COMPUSTAT_RAW_FILE, the quarterly pickle) is loaded, or None is returned
crsp_without_compustat_always_load(fs) == "load"
crsp_without_compustat(fs) ==
    IF NotNA(fs[<<"quarterly", "pkl">>]) THEN "load" ELSE "return_none"

\* pull_crsp_data(config, compustat_df) (crsp_utils.py 26-204);
\* arg is <<>> for compustat_df=None
PullCrspRun(arg, refresh, fs, fail, empty, stata) ==
    IF CacheMiss(refresh, fs, "crsp")
    THEN IF IsNA(arg)
         THEN IF crsp_without_compustat(fs) = "return_none"
              THEN [files |-> fs, events |-> <<Ev("crsp", "no_compustat", "")>>,
                    opened |-> 0, leaked |-> 0, value |-> Some(NoneValue)]
              ELSE IF IsNA(fs[<<"quarterly", "pkl">>])
              THEN [files |-> fs, events |-> <<Ev("crsp", "read_failed", "compustat")>>,
                    opened |-> 0, leaked |-> 0, value |-> NA]
              ELSE LET r == LivePull("crsp", fs, fail, empty, stata)
                   IN [r EXCEPT !.events = <<Ev("crsp", "read", "compustat")>> \o @]
         ELSE LivePull("crsp", fs, fail, empty, stata)
    ELSE CachedPull("crsp", fs)

\* merge_and_process_data as main calls it, by its effects on files:
\* compustat_df is not None; with CRSP data the linking table is loaded
\* (raises FileNotFoundError, lines 62-66, before any output); the panel is
\* saved at 714-742 and returned at 794.
FinalData(q, c) ==
    [origin |-> "new", empty |-> q.empty, compustat |-> q.origin, crsp |-> c.origin]

\* load_linking_table lines 62-66: not file_path.exists() raises
\* FileNotFoundError
linking_table_not_found_ignored(fs) == FALSE
linking_table_not_found(fs) == IsNA(fs[<<"linking", "csv">>])

MergeRun(q, c, fs, stata) ==
    IF c.kind # "None" /\ linking_table_not_found(fs)
    THEN [files |-> fs, events |-> <<Ev("final", "read_failed", "linking")>>,
          opened |-> 0, leaked |-> 0, value |-> NA]
    ELSE LET d     == FinalData(q, c)
             saved == SaveFiles("final", fs, d, stata)
         IN [files |-> saved.files,
             events |-> (IF c.kind # "None" THEN <<Ev("final", "read", "linking")>>
                         ELSE <<>>)
                        \o <<Ev("final", "ratios", "")>> \o saved.events,
             opened |-> 0, leaked |-> 0,
             value |-> IF saved.raised THEN NA ELSE Some(Frame("final", d))]

\* pull_compustat_data lines 384-403: company info is taken from annual_df and
\* saved, or read from its pickle
CompanyInfoRun(annual, refresh, fs) ==
    IF refresh \/ IsNA(fs[<<"company", "pkl">>])
    THEN LET d == Data(annual.origin, annual.empty)
         IN [files |-> [fs EXCEPT ![<<"company", "pkl">>] = Some(d),
                                  ![<<"company", "csv">>] = Some(d)],
             events |-> <<Ev("company", "write", "pkl"), Ev("company", "write", "csv")>>,
             opened |-> 0, leaked |-> 0, value |-> Some(Frame("company", d))]
    ELSE [files |-> fs, events |-> <<Ev("company", "read", "pkl")>>,
          opened |-> 0, leaked |-> 0,
          value |-> Some(Frame("company", Val(fs[<<"company", "pkl">>])))]

\* the steps of orchestrator.main in the order of its calls (lines 68, 81,
\* 93; pull_compustat_data lines 377, 383, 387)
StageOrder == <<"annual", "quarterly", "company", "crsp", "final">>
Stages     == SeqToSet(StageOrder) \cup {"main"}

IndexOf(stage) == CHOOSE i \in 1..Len(StageOrder) : StageOrder[i] = stage

NextStage_skipping(stage) ==
    IF stage = "final" THEN "done"
    ELSE IF stage = "annual" THEN "crsp" ELSE StageOrder[IndexOf(stage) + 1]
NextStage(stage) ==
    IF stage = "final" THEN "done" ELSE StageOrder[IndexOf(stage) + 1]

NotRun        == [status |-> "notrun", value |-> NoneValue]
Raised        == [status |-> "raised", value |-> NoneValue]
ReturnedWith(v) == [status |-> "returned", value |-> v]

\* the states of a stage's cache left by earlier runs
CacheStates == {"absent", "full", "no_dta", "empty"}
CacheFile(state, fmt) ==
    IF state = "absent" \/ (state = "no_dta" /\ fmt = "dta") THEN NA
    ELSE Some(Data("old", state = "empty"))

InitFiles(cache, company, linking, final) ==
    [f \in FileNames |->
        IF f[1] \in PullerStages THEN CacheFile(cache[f[1]], f[2])
        ELSE IF f[1] = "company" THEN CacheFile(company, f[2])
        ELSE IF f[1] = "linking" THEN CacheFile(linking, f[2])
        ELSE CacheFile(final, f[2])]

MergeIdle ==
    /\ compustat_df = <<>> /\ has_datacqtr = FALSE /\ crsp_quarterly_df = NA
    /\ linking_csv = <<>> /\ mpc = "idle" /\ dedup_df = <<>> /\ final_df = <<>>

InitPipe ==
    /\ MergeIdle
    /\ FnIdle
    /\ REFRESH_DATA \in BOOLEAN
    /\ caller \in {"main", "crsp(df)", "crsp(None)"}
    /\ \E cache \in [PullerStages -> CacheStates],
          company, linking, final \in {"absent", "full"} :
          /\ cache["annual"] # "empty" /\ cache["crsp"] # "empty"
          /\ (caller # "main" =>
                 /\ cache["annual"] = "absent" /\ company = "absent"
                 /\ linking = "absent" /\ final = "absent")
          /\ files = InitFiles(cache, company, linking, final)
    /\ pc = IF caller = "main" THEN "annual" ELSE "crsp"
    /\ open_conns = 0
    /\ opened = 0
    /\ trace = <<>>
    /\ snap = [s \in Stages |-> files]
    /\ ret = [s \in Stages |-> NotRun]

\* main's except clause (orchestrator.py 114-124) prints and re-raises
Ended(stage, r) ==
    IF IsNA(r.value) THEN Raised ELSE ReturnedWith(Val(r.value))

\* A stage ran from entry to return or raise with result r.
RunStage(stage, r, check_failed) ==
    /\ files' = r.files
    /\ open_conns' = open_conns + r.leaked
    /\ opened' = opened + r.opened
    /\ snap' = [snap EXCEPT ![stage] = files]
    /\ trace' = trace \o <<Ev(stage, "enter", "")>> \o r.events
                      \o <<Ev(stage, IF IsNA(r.value) THEN "raise" ELSE "return", "")>>
                      \o (IF NotNA(r.value) /\ check_failed
                          THEN <<Ev("main", "raise", "ValueError")>> ELSE <<>>)
    /\ IF caller # "main"
       THEN /\ pc' = "done"
            /\ ret' = [ret EXCEPT ![stage] = Ended(stage, r)]
       ELSE IF IsNA(r.value) \/ check_failed
       THEN /\ pc' = "failed"
            /\ ret' = [ret EXCEPT ![stage] = Ended(stage, r), !["main"] = Raised]
       ELSE /\ pc' = NextStage(stage)
            /\ ret' = [ret EXCEPT ![stage] = Ended(stage, r),
                                  !["main"] = IF NextStage(stage) = "done"
                                              THEN Ended(stage, r) ELSE @]
    /\ UNCHANGED <<caller, REFRESH_DATA>>
    /\ UNCHANGED mergeVars
    /\ UNCHANGED fnVars

pull_compustat_annual ==
    /\ caller = "main" /\ pc = "annual"
    /\ \E fail \in FailPoints("annual"), empty \in BOOLEAN, stata \in StataOutcomes :
          RunStage("annual",
                   PullCompustatRun("annual", REFRESH_DATA, files, fail, empty, stata),
                   FALSE)

pull_compustat_quarterly ==
    /\ caller = "main" /\ pc = "quarterly"
    /\ \E fail \in FailPoints("quarterly"), empty \in BOOLEAN, stata \in StataOutcomes :
          RunStage("quarterly",
                   PullCompustatRun("quarterly", REFRESH_DATA, files, fail, empty, stata),
                   FALSE)

\* the rest of pull_compustat_data, then main's test of the quarterly frame
\* (orchestrator.py 70-71): None or len(...) == 0 raises ValueError
no_quarterly_data_accepted(q) == FALSE
no_quarterly_data(q) == q.kind = "None" \/ q.empty

company_info ==
    /\ caller = "main" /\ pc = "company"
    /\ RunStage("company",
                CompanyInfoRun(ret["annual"].value, REFRESH_DATA, files),
                no_quarterly_data(ret["quarterly"].value))

\* main passes the quarterly frame (orchestrator.py 81)
pull_crsp_data_from_main ==
    /\ caller = "main" /\ pc = "crsp"
    /\ \E fail \in FailPoints("crsp"), empty \in BOOLEAN, stata \in StataOutcomes :
          RunStage("crsp",
                   PullCrspRun(Some(ret["quarterly"].value), REFRESH_DATA, files,
                               fail, empty, stata),
                   FALSE)

DirectArg ==
    IF caller = "crsp(df)" THEN Some(SortedFrame(Data("old", FALSE))) ELSE NA

pull_crsp_data_direct ==
    /\ caller # "main" /\ pc = "crsp"
    /\ \E fail \in FailPoints("crsp"), empty \in BOOLEAN, stata \in StataOutcomes :
          RunStage("crsp",
                   PullCrspRun(DirectArg, REFRESH_DATA, files, fail, empty, stata),
                   FALSE)

\* merge_and_process_data, then main's test of the final frame
\* (orchestrator.py 93-96)
merge_and_save ==
    /\ caller = "main" /\ pc = "final"
    /\ \E stata \in StataOutcomes :
          LET r == MergeRun(ret["quarterly"].value, ret["crsp"].value, files, stata)
          IN RunStage("final", r, NotNA(r.value) /\ Val(r.value).empty)

NextPipe ==
    \/ pull_compustat_annual
    \/ pull_compustat_quarterly
    \/ company_info
    \/ pull_crsp_data_from_main
    \/ pull_crsp_data_direct
    \/ merge_and_save

SpecPipe == InitPipe /\ [][NextPipe]_vars

-----------------------------------------------------------------------------
(* Properties of merge_and_process_data *)

Returned == mpc = "returned"

MarketFields == {"prc", "ret_quarterly", "shrout", "mktcap_crsp"}
HasMarket(r)  == \E f \in MarketFields : NotNA(r[f])
AllMarket(r)  == \A f \in MarketFields : NotNA(r[f])

\* the key of an input row as the function normalises it
SameKey(a, b) == a.gvkey = b.gvkey /\ a.datadate = b.datadate

\* the crosswalk rows of a gvkey cell, as loaded
LinksOf(gvkey) ==
    { l \in SeqToSet(load_linking_table(linking_csv)) : Some(l.gvkey) = gvkey }

\* a CRSP quarterly record exists for the security of link l in the calendar
\* quarter of output row r
CrspCovers(l, r) ==
    /\ NotNA(crsp_quarterly_df)
    /\ \E c \in SeqToSet(Val(crsp_quarterly_df)) :
          Some(c.permno) = l.permno /\ c.year = r.year /\ c.quarter = r.quarter

\* LINKDT <= datadate <= LINKENDDT, 'E' meaning no end
LinkContains(l, d) ==
    /\ (IsNA(l.LINKDT_parsed) \/ Val(l.LINKDT_parsed) <= d)
    /\ (IsNA(l.LINKENDDT_parsed) \/ d <= Val(l.LINKENDDT_parsed))

\* C1: with CRSP data supplied, an output row has market fields only through
\* a crosswalk row of its gvkey whose validity interval contains its report
\* date; a row whose links are all outside their interval at datadate has
\* every market field null.
C1_MarketOnlyThroughValidLink ==
    Returned =>
        \A i \in 1..Len(final_df) :
            HasMarket(final_df[i]) =>
                \E l \in LinksOf(final_df[i].gvkey) :
                    /\ LinkContains(l, final_df[i].datadate)
                    /\ CrspCovers(l, final_df[i])

\* C2: the returned panel has at most one record per (gvkey, calendar year,
\* calendar quarter).
C2_OneRecordPerFirmQuarter ==
    Returned =>
        \A i, j \in 1..Len(final_df) :
            (/\ final_df[i].gvkey = final_df[j].gvkey
             /\ final_df[i].year = final_df[j].year
             /\ final_df[i].quarter = final_df[j].quarter) => i = j

UniqueKeys(df) == \A i, j \in 1..Len(df) : SameKey(df[i], df[j]) => i = j
SortedByKey(df) == \A i \in 1..(Len(df) - 1) : ~KeyLess(df[i + 1], df[i])

\* C3: after the duplicate-removal step and in the returned DataFrame the pair
\* (gvkey, datadate) is unique across rows and the rows are in ascending
\* (gvkey, datadate) order.
C3_UniqueSortedKeys ==
    Returned =>
        /\ UniqueKeys(dedup_df) /\ SortedByKey(dedup_df)
        /\ UniqueKeys(final_df) /\ SortedByKey(final_df)

\* C3 witness: a returned run whose input was out of order and whose crosswalk
\* fanned one accounting row out into two (so a duplicate was dropped).
C3_Witness ==
    /\ Returned
    /\ ~SortedByKey(compustat_df)
    /\ \E i \in 1..Len(compustat_df) :
          Cardinality(LinksOf(compustat_df[i].gvkey)) = 2
    /\ Len(final_df) = 2

\* C4: every distinct (gvkey, datadate) of the input with a non-null gvkey is
\* in the output exactly once, matched or not; rows without a crosswalk row or
\* without a CRSP record have null market fields; no output key is absent
\* from the input.
C4_AccountingIsPrimary ==
    Returned =>
        /\ \A i \in 1..Len(compustat_df) :
              NotNA(compustat_df[i].gvkey) =>
                 Cardinality({ k \in 1..Len(final_df) :
                                 SameKey(final_df[k], compustat_df[i]) }) = 1
        /\ \A k \in 1..Len(final_df) :
              (~\E l \in LinksOf(final_df[k].gvkey) : CrspCovers(l, final_df[k]))
                  => ~HasMarket(final_df[k])
        /\ \A k \in 1..Len(final_df) :
              \E i \in 1..Len(compustat_df) : SameKey(final_df[k], compustat_df[i])

-----------------------------------------------------------------------------
(***************************************************************************)
(* End-to-end scenario: two firms, two quarters, firm B without one of the *)
(* quarters; a crosswalk with one link per firm, valid over the sample; a  *)
(* CRSP quarterly table with both securities in both quarters.             *)
(***************************************************************************)
DatesIn(q) == { d \in Dates : DtYear(d) = 1 /\ DtQuarter(d) = q }

\* the three accounting rows, before the datacqtr column is filled
ScenarioKeys ==
    { <<a1, a2, b>> \in (DatesIn(1) \X DatesIn(2) \X (DatesIn(1) \cup DatesIn(2))) : TRUE }

Permutations3 == { p \in [1..3 -> 1..3] : \A i, j \in 1..3 : p[i] = p[j] => i = j }

\* how the datacqtr column is filled: absent, present and empty, or present
\* with the calendar quarter of the report date
CqtrCell(mode, d) == IF mode = "filled" THEN Some(<<DtYear(d), DtQuarter(d)>>) ELSE NA

ScenarioAcct(k, mode) ==
    << [gvkey |-> Some("A"), datadate |-> k[1], datacqtr |-> CqtrCell(mode, k[1])],
       [gvkey |-> Some("A"), datadate |-> k[2], datacqtr |-> CqtrCell(mode, k[2])],
       [gvkey |-> Some("B"), datadate |-> k[3], datacqtr |-> CqtrCell(mode, k[3])] >>

\* validity intervals that contain every report date of the sample
SampleIntervals ==
    { <<NaNStr, EStr>>, <<DateStr(1), EStr>>, <<DateStr(1), DateStr(MaxDate)>> }

ScenarioLinks(ia, ib) ==
    << [gvkey |-> "A", LPERMNO |-> 1, LINKDT |-> ia[1], LINKENDDT |-> ia[2]],
       [gvkey |-> "B", LPERMNO |-> 2, LINKDT |-> ib[1], LINKENDDT |-> ib[2]] >>

FullCrsp == <<CrspRow(1, 1), CrspRow(1, 2), CrspRow(2, 1), CrspRow(2, 2)>>

InitE2E ==
    /\ \E k \in ScenarioKeys, mode \in {"absent", "empty", "filled"},
          p \in Permutations3 :
          /\ has_datacqtr = (mode # "absent")
          /\ compustat_df = [i \in 1..3 |-> ScenarioAcct(k, mode)[p[i]]]
    /\ \E ia \in SampleIntervals, ib \in SampleIntervals, swap \in BOOLEAN :
          linking_csv = IF swap THEN <<ScenarioLinks(ia, ib)[2], ScenarioLinks(ia, ib)[1]>>
                        ELSE ScenarioLinks(ia, ib)
    /\ crsp_quarterly_df = Some(FullCrsp)
    /\ mpc = "call"
    /\ dedup_df = <<>>
    /\ final_df = <<>>
    /\ PipeIdle
    /\ FnIdle

SpecE2E == InitE2E /\ [][NextMerge]_vars

RowsOf(df, g) == { i \in 1..Len(df) : df[i].gvkey = Some(g) }
QuartersOf(df, g) == { DtQuarter(df[i].datadate) : i \in RowsOf(df, g) }

\* C5: in the end-to-end scenario the result has exactly 3 rows, none for
\* firm B's missing quarter, and prc, ret_quarterly, shrout and mktcap_crsp
\* are non-null in each of them.
C5_EndToEnd ==
    Returned =>
        /\ Len(final_df) = 3
        /\ { final_df[i].quarter : i \in RowsOf(final_df, "B") }
              = QuartersOf(compustat_df, "B")
        /\ Cardinality(RowsOf(final_df, "B")) = 1
        /\ Cardinality(RowsOf(final_df, "A")) = 2
        /\ \A i \in 1..3 : AllMarket(final_df[i])

\* C5 witness: a returned run of the scenario in which firm B reported the
\* second quarter only and the accounting rows came in out of order.
C5_Witness ==
    /\ Returned
    /\ QuartersOf(compustat_df, "B") = {2}
    /\ ~SortedByKey(compustat_df)
    /\ Len(final_df) = 3

-----------------------------------------------------------------------------
(* Properties of the pipeline *)

Ran(stage)      == ret[stage].status # "notrun"
Returns(stage)  == ret[stage].status = "returned"
Raises(stage)   == ret[stage].status = "raised"

Happened(stage, ev) ==
    \E i \in 1..Len(trace) : trace[i][1] = stage /\ trace[i][2] = ev
HappenedWith(stage, ev, detail) ==
    \E i \in 1..Len(trace) : trace[i] = Ev(stage, ev, detail)

FileAtEntry(stage, fmt) == snap[stage][<<stage, fmt>>]
FileNow(stage, fmt)     == files[<<stage, fmt>>]

\* the stage was given a Compustat DataFrame where it takes one
GivenCompustat(stage) == stage # "crsp" \/ caller # "crsp(None)"

MissAtEntry(stage) == REFRESH_DATA \/ IsNA(FileAtEntry(stage, "pkl"))

ConnectionTried(stage) ==
    Happened(stage, "connect") \/ Happened(stage, "connect_failed")

OwnFilesUntouched(stage) ==
    /\ ~Happened(stage, "write")
    /\ \A fmt \in Formats : FileNow(stage, fmt) = FileAtEntry(stage, fmt)

DerivedFrom(stage, d) ==
    IF stage = "crsp" THEN QuarterlyFrame(d) ELSE SortedFrame(d)

\* the three cache files hold the result of this run's query
Overwritten(stage, fmt) ==
    /\ HappenedWith(stage, "write", fmt)
    /\ NotNA(FileNow(stage, fmt))
    /\ Val(FileNow(stage, fmt)).origin = "new"

LiveAndAllWritten(stage) ==
    /\ Happened(stage, "connect")
    /\ HappenedWith(stage, "query", "data")
    /\ \A fmt \in Formats : Overwritten(stage, fmt)

\* C6 as stated: a puller stage that was given its Compustat frame connects,
\* queries and overwrites its pickle, CSV and Stata files if and only if
\* REFRESH_DATA is true or its pickle was absent when it started; otherwise
\* it opens no connection, writes no file and returns data derived from the
\* pickle only.
C6_AsStated ==
    \A s \in PullerStages :
        (Ran(s) /\ GivenCompustat(s)) =>
            /\ LiveAndAllWritten(s) <=> MissAtEntry(s)
            /\ ~MissAtEntry(s) =>
                   /\ ~ConnectionTried(s)
                   /\ OwnFilesUntouched(s)
                   /\ Returns(s)
                   /\ ret[s].value = DerivedFrom(s, Val(FileAtEntry(s, "pkl")))

\* C6: a puller stage that was given its Compustat frame tries to connect if
\* and only if REFRESH_DATA is true or its pickle was absent when it started.
\* When it then returns, it has run the data query, the pickle and the CSV
\* hold the query result, the returned frame derives from that result, and
\* the Stata file holds it too unless the Stata export failed.  It writes no
\* file unless it connected and queried.  Otherwise (pickle present, no
\* refresh) it opens no connection, writes no file and returns data derived
\* from the pickle only.
C6_CacheProtocol ==
    \A s \in PullerStages :
        (Ran(s) /\ GivenCompustat(s)) =>
            /\ ConnectionTried(s) <=> MissAtEntry(s)
            /\ Happened(s, "write") =>
                   (MissAtEntry(s) /\ HappenedWith(s, "query", "data"))
            /\ (MissAtEntry(s) /\ Returns(s)) =>
                   /\ Happened(s, "connect")
                   /\ HappenedWith(s, "query", "data")
                   /\ Overwritten(s, "pkl") /\ Overwritten(s, "csv")
                   /\ FileNow(s, "csv") = FileNow(s, "pkl")
                   /\ ret[s].value = DerivedFrom(s, Val(FileNow(s, "pkl")))
                   /\ \/ Overwritten(s, "dta") /\ FileNow(s, "dta") = FileNow(s, "pkl")
                      \/ Happened(s, "dta_failed")
            /\ ~MissAtEntry(s) =>
                   /\ ~ConnectionTried(s)
                   /\ OwnFilesUntouched(s)
                   /\ Returns(s)
                   /\ ret[s].value = DerivedFrom(s, Val(FileAtEntry(s, "pkl")))

\* one run in which the annual pull missed its cache and returned although
\* its Stata export failed, the quarterly pull was served from its pickle,
\* and the CRSP pull missed and wrote all three files
C6_Witness ==
    /\ caller = "main"
    /\ Returns("annual") /\ MissAtEntry("annual") /\ Happened("annual", "dta_failed")
    /\ Returns("quarterly") /\ ~MissAtEntry("quarterly")
    /\ Returns("crsp") /\ MissAtEntry("crsp") /\ LiveAndAllWritten("crsp")

\* C7: when the Stata export fails in a puller stage, the stage does not
\* raise, its pickle and CSV hold the full query result, and it returns the
\* frame it would have returned had the export succeeded.
C7_StataFailureCaught ==
    \A s \in PullerStages :
        Happened(s, "dta_failed") =>
            /\ Returns(s)
            /\ Overwritten(s, "pkl") /\ Overwritten(s, "csv")
            /\ FileNow(s, "csv") = FileNow(s, "pkl")
            /\ LET arg  == IF s = "crsp" /\ caller = "main"
                           THEN Some(ret["quarterly"].value) ELSE DirectArg
                   good == IF s = "crsp"
                           THEN PullCrspRun(arg, REFRESH_DATA, snap[s], "nowhere",
                                            Val(FileNow(s, "pkl")).empty, "ok")
                           ELSE PullCompustatRun(s, REFRESH_DATA, snap[s], "nowhere",
                                                 Val(FileNow(s, "pkl")).empty, "ok")
               IN /\ ret[s].value = Val(good.value)
                  /\ good.files[<<s, "pkl">>] = FileNow(s, "pkl")
                  /\ good.files[<<s, "csv">>] = FileNow(s, "csv")

\* the Stata export failed in each of the three puller stages of one run,
\* once leaving an older .dta in place
C7_Witness ==
    /\ \A s \in PullerStages : Happened(s, "dta_failed") /\ Returns(s)
    /\ NotNA(FileNow("annual", "dta"))
    /\ IsNA(FileNow("crsp", "dta"))

\* C8 as stated: when the Stata export of the final panel fails, the failure
\* is logged, the pipeline continues, the final CSV and the final pickle are
\* both written, and merge_and_process_data returns the final frame.
C8_FinalStataFailureRecoverable ==
    Happened("final", "dta_failed") =>
        /\ HappenedWith("final", "dta_failed", "caught")
        /\ Returns("final")
        /\ pc # "failed"
        /\ Overwritten("final", "csv")
        /\ Overwritten("final", "pkl")

\* C9 as stated: pull_crsp_data called with compustat_df=None while no
\* Compustat pickle exists returns None, raises nothing, opens no connection
\* and writes no file, whatever the refresh flag and the CRSP cache are.
C9_AsStated ==
    (caller = "crsp(None)" /\ Ran("crsp") /\ IsNA(snap["crsp"][<<"quarterly", "pkl">>])) =>
        /\ Returns("crsp")
        /\ ret["crsp"].value = NoneValue
        /\ opened = 0
        /\ files = snap["crsp"]

\* C9: pull_crsp_data called with compustat_df=None while no Compustat pickle
\* exists raises nothing, opens no connection and writes no file; it returns
\* None when REFRESH_DATA is true or the CRSP pickle is absent, and otherwise
\* the quarterly aggregate of the CRSP pickle.
C9_NoCompustatNoCache ==
    (caller = "crsp(None)" /\ Ran("crsp") /\ IsNA(snap["crsp"][<<"quarterly", "pkl">>])) =>
        /\ Returns("crsp")
        /\ opened = 0
        /\ ~ConnectionTried("crsp")
        /\ files = snap["crsp"]
        /\ ~Happened("crsp", "write")
        /\ ret["crsp"].value =
               IF MissAtEntry("crsp") THEN NoneValue
               ELSE QuarterlyFrame(Val(FileAtEntry("crsp", "pkl")))

\* the call returned None although a CRSP pickle was there, because a refresh
\* was forced
C9_Witness ==
    /\ caller = "crsp(None)" /\ Ran("crsp")
    /\ IsNA(snap["crsp"][<<"quarterly", "pkl">>])
    /\ REFRESH_DATA /\ NotNA(FileAtEntry("crsp", "pkl"))
    /\ ret["crsp"] = ReturnedWith(NoneValue)

\* the positions in the trace where a stage is entered, in order
RECURSIVE Entered(_)
Entered(tr) ==
    IF tr = <<>> THEN <<>>
    ELSE IF Head(tr)[2] = "enter" THEN <<Head(tr)[1]>> \o Entered(Tail(tr))
    ELSE Entered(Tail(tr))

IsPrefix(p, q) == Len(p) <= Len(q) /\ \A i \in 1..Len(p) : p[i] = q[i]

\* C10: in a run of main the stages are entered in the order annual,
\* quarterly, (company info,) CRSP, merge, none twice; a stage is entered
\* only right after the previous one returned, every event in between
\* belonging to the stage that is running; and each write of a final file
\* comes after the returns of the annual, quarterly and CRSP pulls.
C10_StrictStageOrder ==
    caller = "main" =>
        /\ IsPrefix(Entered(trace), StageOrder)
        /\ \A i \in 1..Len(trace) :
              /\ (trace[i][2] = "enter" /\ i > 1) =>
                     /\ trace[i-1][2] = "return"
                     /\ trace[i-1][1] = StageOrder[IndexOf(trace[i][1]) - 1]
              /\ (trace[i][2] # "enter" /\ trace[i][1] # "main") =>
                     /\ i > 1
                     /\ trace[i-1][1] = trace[i][1]
                     /\ trace[i-1][2] \notin {"return", "raise"}
              /\ (trace[i][1] = "final" /\ trace[i][2] = "write") =>
                     \A s \in {"annual", "quarterly", "crsp"} :
                         \E j \in 1..(i-1) : trace[j] = Ev(s, "return", "")
        /\ \A f \in {"final"} \X Formats :
              files[f] # snap["annual"][f] =>
                  \A s \in {"annual", "quarterly", "crsp"} : Returns(s)

\* a complete run: all five steps entered, the three final files written
C10_Witness ==
    /\ caller = "main" /\ pc = "done"
    /\ Entered(trace) = StageOrder
    /\ \A fmt \in Formats : Overwritten("final", fmt)
    /\ Returns("main")

FinalFilesAsBefore ==
    \A fmt \in Formats : files[<<"final", fmt>>] = snap["annual"][<<"final", fmt>>]

\* C11: when the quarterly pull of a run of main returned a frame without
\* rows, neither the CRSP stage nor the merge stage is ever entered, no final
\* file is written, and once the Compustat step is over main has raised.
C11_NoQuarterlyDataIsFatal ==
    (caller = "main" /\ Returns("quarterly") /\ ret["quarterly"].value.empty) =>
        /\ ~Happened("crsp", "enter")
        /\ ~Happened("final", "enter")
        /\ ~Happened("final", "write")
        /\ FinalFilesAsBefore
        /\ pc \in {"company", "failed"}
        /\ (pc = "failed" => Raises("main"))

\* main raised ValueError on an empty quarterly frame that came from the
\* cache, after the company info had been saved
C11_Witness ==
    /\ caller = "main" /\ pc = "failed" /\ Raises("main")
    /\ Returns("quarterly") /\ ret["quarterly"].value.empty
    /\ ~MissAtEntry("quarterly")
    /\ Returns("company")
    /\ HappenedWith("main", "raise", "ValueError")
    /\ NotNA(snap["annual"][<<"final", "pkl">>])

\* C12: when the merge stage gets CRSP data and the crosswalk CSV is missing,
\* it raises before any ratio is computed and before any final file is
\* written; the final files are as they were.
C12_MissingCrosswalkIsFatal ==
    (Ran("final") /\ ret["crsp"].value.kind # "None"
       /\ IsNA(snap["final"][<<"linking", "csv">>])) =>
        /\ Raises("final")
        /\ ~Happened("final", "ratios")
        /\ ~Happened("final", "write")
        /\ files = snap["final"]
        /\ FinalFilesAsBefore

\* the merge stage raised on the missing crosswalk while older final files
\* were in place
C12_Witness ==
    /\ Raises("final") /\ HappenedWith("final", "read_failed", "linking")
    /\ ret["crsp"].value.kind = "quarterly"
    /\ \A fmt \in Formats : NotNA(files[<<"final", fmt>>])
                            /\ Val(files[<<"final", fmt>>]).origin = "old"

-----------------------------------------------------------------------------
(***************************************************************************)
(* config.py: get_annual_compatible_vars and add_quarterly_suffix.         *)
(* A variable name is the sequence of its characters.                      *)
(***************************************************************************)
MaxVars == 3

n_gvkey   == <<"g", "v", "k", "e", "y">>
n_cusip   == <<"c", "u", "s", "i", "p">>
n_datadate == <<"d", "a", "t", "a", "d", "a", "t", "e">>
n_conm    == <<"c", "o", "n", "m">>
n_datacqtr == <<"d", "a", "t", "a", "c", "q", "t", "r">>
n_datafqtr == <<"d", "a", "t", "a", "f", "q", "t", "r">>
n_fqtr    == <<"f", "q", "t", "r">>
n_fyearq  == <<"f", "y", "e", "a", "r", "q">>
n_rdq     == <<"r", "d", "q">>
n_capx    == <<"c", "a", "p", "x">>
n_capxy   == <<"c", "a", "p", "x", "y">>
n_CAPX    == <<"C", "A", "P", "X">>
n_dvpsp   == <<"d", "v", "p", "s", "p">>
n_dvpspq  == <<"d", "v", "p", "s", "p", "q">>
n_prcc    == <<"p", "r", "c", "c">>
n_PRCC    == <<"P", "R", "C", "C">>
n_prcc_f  == <<"p", "r", "c", "c", "_", "f">>
n_at      == <<"a", "t">>
n_atq     == <<"a", "t", "q">>

\* the names the lists are drawn from: identifiers, the special cases, an
\* annual-only name, quarterly-only names, ordinary names, upper-case forms
NamePool ==
    {n_gvkey, n_rdq, n_capx, n_CAPX, n_dvpsp, n_prcc, n_PRCC, n_prcc_f, n_at, n_atq}

\* str.lower() on the characters that occur
LowerChar(ch) ==
    CASE ch = "C" -> "c" [] ch = "A" -> "a" [] ch = "P" -> "p"
      [] ch = "X" -> "x" [] ch = "R" -> "r" [] OTHER -> ch
Lower(name) == [i \in 1..Len(name) |-> LowerChar(name[i])]

\* lines 347-355
annual_exclusions_none == {}
annual_exclusions ==
    {n_prcc, n_dvpsp, n_datacqtr, n_datafqtr, n_fqtr, n_fyearq, n_rdq}

\* line 358: [var for var in vars_list if var.lower() not in annual_exclusions]
get_annual_compatible_vars(L) ==
    SelectSeq(L, LAMBDA var : Lower(var) \notin annual_exclusions)

\* lines 382-394
identifiers ==
    {n_gvkey, n_cusip, n_datadate, n_conm,
     n_datacqtr, n_datafqtr, n_fqtr, n_fyearq, n_rdq}
special_cases == [n \in {n_capx, n_dvpsp} |-> IF n = n_capx THEN n_capxy ELSE n_dvpspq]
annual_only   == {n_prcc_f}

\* lines 397-408: the loop body for one name, as the list of names it appends
quarterly_name_unchanged(var) == <<var>>
quarterly_name(var) ==
    IF Lower(var) \in annual_only THEN <<>>
    ELSE IF Lower(var) \in identifiers THEN <<var>>
    ELSE IF Lower(var) \in DOMAIN special_cases THEN <<special_cases[Lower(var)]>>
    ELSE <<var \o <<"q">>>>

RECURSIVE add_quarterly_suffix(_)
add_quarterly_suffix(L) ==
    IF L = <<>> THEN <<>>
    ELSE quarterly_name(Head(L)) \o add_quarterly_suffix(Tail(L))

OthersIdleForCfg == MergeIdle /\ PipeIdle /\ AggIdle /\ WvIdle /\ RatioIdle /\ MoreIdle

InitCfg ==
    /\ OthersIdleForCfg
    /\ vars_list \in SeqsUpTo(NamePool, MaxVars)
    /\ quarterly_vars = NA
    /\ annual_vars = NA
    /\ annual_vars_twice = NA

CallAddQuarterlySuffix ==
    /\ IsNA(quarterly_vars)
    /\ quarterly_vars' = Some(add_quarterly_suffix(vars_list))
    /\ UNCHANGED <<vars_list, annual_vars, annual_vars_twice>>
    /\ UNCHANGED <<mergeVars, pipeVars, aggVars, wvVars, ratioVars, moreVars>>

CallGetAnnualCompatibleVars ==
    /\ IsNA(annual_vars)
    /\ annual_vars' = Some(get_annual_compatible_vars(vars_list))
    /\ UNCHANGED <<vars_list, quarterly_vars, annual_vars_twice>>
    /\ UNCHANGED <<mergeVars, pipeVars, aggVars, wvVars, ratioVars, moreVars>>

CallGetAnnualCompatibleVarsAgain ==
    /\ NotNA(annual_vars) /\ IsNA(annual_vars_twice)
    /\ annual_vars_twice' = Some(get_annual_compatible_vars(Val(annual_vars)))
    /\ UNCHANGED <<vars_list, quarterly_vars, annual_vars>>
    /\ UNCHANGED <<mergeVars, pipeVars, aggVars, wvVars, ratioVars, moreVars>>

NextCfg ==
    \/ CallAddQuarterlySuffix
    \/ CallGetAnnualCompatibleVars
    \/ CallGetAnnualCompatibleVarsAgain

SpecCfg == InitCfg /\ [][NextCfg]_vars

\* the name is neither an identifier nor a special case (as the function
\* tests it, on the lower-cased name)
Ordinary(name) ==
    /\ Lower(name) \notin identifiers
    /\ Lower(name) \notin DOMAIN special_cases

StripSuffix(name) == SubSeq(name, 1, Len(name) - 1)

Suffixed(name) == Ordinary(name) /\ Lower(name) \notin annual_only

\* the names of a list that satisfy a test, in order
Those(L, Test(_)) == SelectSeq(L, Test)

RECURSIVE IsSubList(_, _)
IsSubList(sub, L) ==
    IF sub = <<>> THEN TRUE
    ELSE IF L = <<>> THEN FALSE
    ELSE IF Head(sub) = Head(L) THEN IsSubList(Tail(sub), Tail(L))
    ELSE IsSubList(sub, Tail(L))

QuarterlyOnlyNames ==
    {n_prcc, n_dvpsp, n_datacqtr, n_datafqtr, n_fqtr, n_fyearq, n_rdq}

\* C14: get_annual_compatible_vars applied to its own result gives that
\* result again, and the result is the input list with names left out, in
\* the input's order, and holds no quarterly-only name.
C14_AnnualFilterIdempotent ==
    /\ NotNA(annual_vars) =>
          /\ IsSubList(Val(annual_vars), vars_list)
          /\ \A j \in 1..Len(Val(annual_vars)) :
                Val(annual_vars)[j] \notin QuarterlyOnlyNames
    /\ NotNA(annual_vars_twice) => Val(annual_vars_twice) = Val(annual_vars)

\* a list from which a quarterly-only name and its upper-case form were
\* removed and an ordinary name kept, filtered twice
C14_Witness ==
    /\ NotNA(annual_vars_twice)
    /\ vars_list = <<n_prcc, n_at, n_PRCC>>
    /\ Val(annual_vars) = <<n_at>>

-----------------------------------------------------------------------------
(***************************************************************************)
(* crsp_utils.py lines 144-204: monthly CRSP rows to quarterly rows.       *)
(* Monthly returns are held in tenths (a cell <<2>> of ret is 0.2); a      *)
(* compounded return and a mean are exact fractions [num, den].            *)
(***************************************************************************)
MaxMonth         == 4
MonthsPerQuarter == 3
RetScale         == 10
SharesUnit       == 1000

\* EXTRACT(YEAR FROM date), EXTRACT(QUARTER FROM date) of the query (line 78-79)
MonthYear(m)    == 1 + ((m - 1) \div (4 * MonthsPerQuarter))
MonthQuarter(m) == 1 + (((m - 1) \div MonthsPerQuarter) % 4)

\* what one monthly row can hold
MonthlyValues ==
    { [prc |-> Some(7),  shrout |-> Some(2), ret |-> Some(2),  retx |-> Some(1),  vol |-> Some(4)],
      [prc |-> Some(-5), shrout |-> Some(3), ret |-> Some(-1), retx |-> NA,       vol |-> Some(1)],
      [prc |-> NA,       shrout |-> Some(2), ret |-> NA,       retx |-> Some(2),  vol |-> NA],
      [prc |-> Some(7),  shrout |-> NA,      ret |-> Some(5),  retx |-> Some(-1), vol |-> Some(2)] }

MonthlyRow(permno, m, v) ==
    [permno |-> permno, date |-> m, year |-> MonthYear(m), quarter |-> MonthQuarter(m),
     prc |-> v.prc, shrout |-> v.shrout, ret |-> v.ret, retx |-> v.retx, vol |-> v.vol]

\* the (permno, date) keys of crsp.msf that the query can return
MonthlyKeys == ({1} \X (1..MaxMonth)) \cup {<<2, 1>>}

\* keys in the order of the query's ORDER BY permno, date (line 82)
KeyBefore(a, b) == a[1] < b[1] \/ (a[1] = b[1] /\ a[2] < b[2])
RECURSIVE OrderedKeys(_)
OrderedKeys(K) ==
    IF K = {} THEN <<>>
    ELSE LET k == CHOOSE x \in K : \A y \in K \ {x} : KeyBefore(x, y)
         IN <<k>> \o OrderedKeys(K \ {k})

\* the table for a choice of keys with their values
MonthlyTable(present) ==
    LET ks == OrderedKeys(DOMAIN present)
    IN [i \in 1..Len(ks) |-> MonthlyRow(ks[i][1], ks[i][2], present[ks[i]])]

MonthlyTables ==
    UNION { { MonthlyTable(f) : f \in [K -> MonthlyValues] } : K \in SUBSET MonthlyKeys }

\* lines 175-176: fillna(0) + 1, in tenths
ret_plus1_missing_as_loss(cell) == IF IsNA(cell) THEN 0 ELSE RetScale + Val(cell)
ret_plus1(cell) == IF IsNA(cell) THEN RetScale ELSE RetScale + Val(cell)

RECURSIVE Product(_)
Product(xs) == IF xs = <<>> THEN 1 ELSE Head(xs) * Product(Tail(xs))
RECURSIVE Sum(_)
Sum(xs) == IF xs = <<>> THEN 0 ELSE Head(xs) + Sum(Tail(xs))
RECURSIVE Power(_, _)
Power(b, n) == IF n = 0 THEN 1 ELSE b * Power(b, n - 1)

Fraction(num, den) == [num |-> num, den |-> den]
SameFraction(a, b) == a.num * b.den = b.num * a.den

\* lines 179-186: x.prod() of the group's ret_plus1, minus 1
compound(cells) ==
    LET n == Len(cells)
    IN Fraction(Product([i \in 1..n |-> ret_plus1(cells[i])]) - Power(RetScale, n),
                Power(RetScale, n))

\* GroupBy 'last' / 'first': the last / first non-null entry of the column
\* within the group, in row order; missing when the group has none
agg_last(cells) ==
    LET present == SelectSeq(cells, NotNA)
    IN IF present = <<>> THEN NA ELSE present[Len(present)]

\* GroupBy 'mean': the mean of the non-null entries
agg_mean(cells) ==
    LET present == SelectSeq(cells, NotNA)
    IN IF present = <<>> THEN NA
       ELSE Some(Fraction(Sum([i \in 1..Len(present) |-> Val(present[i])]), Len(present)))

AbsInt(x) == IF x < 0 THEN -x ELSE x

\* lines 195-198: (prc.abs() * shrout * 1000).fillna(0)
mktcap_crsp(prc, shrout) ==
    IF IsNA(prc) \/ IsNA(shrout) THEN Some(0)
    ELSE Some(AbsInt(Val(prc)) * Val(shrout) * SharesUnit)

GroupOf(r) == <<r.permno, r.year, r.quarter>>
GroupKeys(tbl) == { GroupOf(tbl[i]) : i \in 1..Len(tbl) }

GroupBefore(a, b) ==
    \/ a[1] < b[1]
    \/ a[1] = b[1] /\ a[2] < b[2]
    \/ a[1] = b[1] /\ a[2] = b[2] /\ a[3] < b[3]
RECURSIVE OrderedGroups(_)
OrderedGroups(G) ==
    IF G = {} THEN <<>>
    ELSE LET g == CHOOSE x \in G : \A y \in G \ {x} : GroupBefore(x, y)
         IN <<g>> \o OrderedGroups(G \ {g})

\* the rows of one group, in table order
GroupRows(tbl, g) == SelectSeq(tbl, LAMBDA r : GroupOf(r) = g)

QuarterlyRow(g, rows) ==
    LET prc    == agg_last(Column(rows, "prc"))
        shrout == agg_last(Column(rows, "shrout"))
    IN [permno |-> g[1], year |-> g[2], quarter |-> g[3],
        prc |-> prc, shrout |-> shrout,
        vol |-> agg_mean(Column(rows, "vol")),
        date |-> rows[Len(rows)].date,
        ret_quarterly  |-> compound(Column(rows, "ret")),
        retx_quarterly |-> compound(Column(rows, "retx")),
        mktcap_crsp |-> mktcap_crsp(prc, shrout)]

\* groupby(['permno', 'year', 'quarter']).agg(...).reset_index() and the
\* derived columns: one row per group, groups in key order
aggregate(tbl) ==
    LET gs == OrderedGroups(GroupKeys(tbl))
    IN [i \in 1..Len(gs) |-> QuarterlyRow(gs[i], GroupRows(tbl, gs[i]))]

OthersIdleForAgg == MergeIdle /\ PipeIdle /\ CfgIdle /\ WvIdle /\ RatioIdle /\ MoreIdle

InitAgg ==
    /\ OthersIdleForAgg
    /\ crsp_identifiers \in MonthlyTables
    /\ crsp_quarterly = NA

Aggregate ==
    /\ IsNA(crsp_quarterly)
    /\ crsp_quarterly' = Some(aggregate(crsp_identifiers))
    /\ UNCHANGED crsp_identifiers
    /\ UNCHANGED <<mergeVars, pipeVars, cfgVars, wvVars, ratioVars, moreVars>>

NextAgg == Aggregate

SpecAgg == InitAgg /\ [][NextAgg]_vars

(* Properties of the quarterly aggregation *)

NonMissingCells(cells) == SelectSeq(cells, NotNA)

\* the compounding of the non-missing monthly returns only
CompoundOfPresent(cells) ==
    LET present == NonMissingCells(cells)
        k       == Len(present)
    IN Fraction(Product([i \in 1..k |-> RetScale + Val(present[i])]) - Power(RetScale, k),
                Power(RetScale, k))

\* C15: the aggregated table has exactly one row for each (permno, year,
\* quarter) of the monthly table, and its ret_quarterly and retx_quarterly
\* equal the product of (1 + r) over the group's non-missing monthly returns,
\* minus 1.
C15_CompoundedReturns ==
    NotNA(crsp_quarterly) =>
        LET out == Val(crsp_quarterly)
        IN /\ Len(out) = Cardinality(GroupKeys(crsp_identifiers))
           /\ \A g \in GroupKeys(crsp_identifiers) :
                 Cardinality({ i \in 1..Len(out) : GroupOf(out[i]) = g }) = 1
           /\ \A i \in 1..Len(out) :
                 LET rows == GroupRows(crsp_identifiers, GroupOf(out[i]))
                 IN /\ rows # <<>>
                    /\ SameFraction(out[i].ret_quarterly,
                                    CompoundOfPresent(Column(rows, "ret")))
                    /\ SameFraction(out[i].retx_quarterly,
                                    CompoundOfPresent(Column(rows, "retx")))

\* a quarter of three months, the middle return missing, next to a second
\* quarter and a second security: 1.2 * 1.5 - 1 = 0.8
C15_Witness ==
    /\ NotNA(crsp_quarterly)
    /\ Len(Val(crsp_quarterly)) = 3
    /\ LET rows == GroupRows(crsp_identifiers, <<1, 1, 1>>)
       IN /\ Len(rows) = 3
          /\ NotNA(rows[1].ret) /\ IsNA(rows[2].ret) /\ NotNA(rows[3].ret)
          /\ rows[1].ret # rows[3].ret
    /\ SameFraction(Val(crsp_quarterly)[1].ret_quarterly, Fraction(8, 10))

\* C16 as stated: mktcap_crsp of a quarterly row is |prc| * shrout * 1000
\* when price and shares are present, and is missing when either is missing.
C16_MarketCap ==
    NotNA(crsp_quarterly) =>
        \A i \in 1..Len(Val(crsp_quarterly)) :
            LET q == Val(crsp_quarterly)[i]
            IN IF NotNA(q.prc) /\ NotNA(q.shrout)
               THEN q.mktcap_crsp = Some(AbsInt(Val(q.prc)) * Val(q.shrout) * 1000)
               ELSE IsNA(q.mktcap_crsp)

\* the group's row with the greatest date
LastObservation(rows) ==
    CHOOSE r \in SeqToSet(rows) : \A o \in SeqToSet(rows) : o.date <= r.date

\* C17 as stated: prc and shrout of a quarterly row are those of the group's
\* monthly row with the greatest date, missing if they are missing there; vol
\* is the mean of the group's monthly volumes.
C17_LastObservationLevels ==
    NotNA(crsp_quarterly) =>
        \A i \in 1..Len(Val(crsp_quarterly)) :
            LET q    == Val(crsp_quarterly)[i]
                rows == GroupRows(crsp_identifiers, GroupOf(q))
                vols == NonMissingCells(Column(rows, "vol"))
            IN /\ q.prc = LastObservation(rows).prc
               /\ q.shrout = LastObservation(rows).shrout
               /\ q.date = LastObservation(rows).date
               /\ IF vols = <<>> THEN IsNA(q.vol)
                  ELSE /\ NotNA(q.vol)
                       /\ Val(q.vol).num = Sum([j \in 1..Len(vols) |-> Val(vols[j])])
                       /\ Val(q.vol).den = Len(vols)

-----------------------------------------------------------------------------
(***************************************************************************)
(* Winsorization: the step of merge_and_process_data (merge_utils.py       *)
(* 662-691) and winsorize_variable (panel_diagnostics.py 150-173).         *)
(***************************************************************************)
MaxSeries == 4

SeriesCells == {NA, Some(0), Some(1), Some(3), Some(7)}

\* lower / upper as percents: the defaults 0.01 / 0.99, and another pair
PercentilePairs == {<<LowerPct, UpperPct>>, <<25, 75>>}

\* panel_diagnostics.py 170-173: quantile(lower), quantile(upper), clip.
\* The quantile of a column without values is NaN, and clip ignores a NaN
\* bound.
winsorize_variable(cells, lower, upper) ==
    LET sorted == NonMissing(cells)
    IN IF sorted = <<>> THEN cells
       ELSE [i \in 1..Len(cells) |->
                clip(cells[i], quantile(sorted, lower), quantile(sorted, upper))]

InitWinsor ==
    \/ InitMerge
    \/ /\ MergeIdle /\ PipeIdle /\ CfgIdle /\ AggIdle /\ RatioIdle /\ MoreIdle
       /\ variable_series \in SeqsUpTo(SeriesCells, MaxSeries)
       /\ percentiles \in PercentilePairs
       /\ winsorized = NA

WinsorizeVariable ==
    /\ percentiles # <<>> /\ IsNA(winsorized)
    /\ winsorized' = Some(winsorize_variable(variable_series, percentiles[1], percentiles[2]))
    /\ UNCHANGED <<variable_series, percentiles>>
    /\ UNCHANGED <<mergeVars, pipeVars, cfgVars, aggVars, ratioVars, moreVars>>

NextWinsor ==
    \/ MergeAndProcess
    \/ WinsorizeVariable

SpecWinsor == InitWinsor /\ [][NextWinsor]_vars

\* the frame that enters the winsorization step of merge_and_process_data
PreWinsor == DropMissingGvkey(dedup_df)

\* For a column before (cells, in units) and after (out, in hundredths)
\* winsorization at (lower, upper): same length, missing exactly where it was
\* missing, every value within the two quantiles of the column before, and
\* unchanged where it was within them already.
WithinBounds(cells, out, lower, upper) ==
    /\ Len(out) = Len(cells)
    /\ \A i \in 1..Len(cells) : IsNA(out[i]) <=> IsNA(cells[i])
    /\ NonMissing(cells) # <<>> =>
          LET lo == quantile(NonMissing(cells), lower)
              hi == quantile(NonMissing(cells), upper)
          IN \A i \in 1..Len(cells) :
                NotNA(cells[i]) =>
                    /\ lo <= Val(out[i]) /\ Val(out[i]) <= hi
                    /\ (lo <= PctScale * Val(cells[i]) /\ PctScale * Val(cells[i]) <= hi)
                           => Val(out[i]) = PctScale * Val(cells[i])

C18_WitnessMerge ==
    /\ Returned /\ Len(final_df) >= 2
    /\ \E i, j \in 1..Len(final_df) :
          /\ NotNA(final_df[i].prc) /\ NotNA(final_df[j].prc)
          /\ Val(final_df[i].prc) > PctScale * Val(PreWinsor[i].prc)
          /\ Val(final_df[j].prc) < PctScale * Val(PreWinsor[j].prc)

\* C19 as stated: winsorization in merge_and_process_data leaves gvkey,
\* permno, year and quarter of every row as they were.
C19_IdentifiersUnchanged ==
    Returned =>
        /\ Len(final_df) = Len(PreWinsor)
        /\ \A i \in 1..Len(final_df) :
              /\ final_df[i].gvkey = PreWinsor[i].gvkey
              /\ final_df[i].year = PreWinsor[i].year
              /\ final_df[i].quarter = PreWinsor[i].quarter
              /\ IsNA(final_df[i].permno) <=> IsNA(PreWinsor[i].permno)
              /\ NotNA(final_df[i].permno) =>
                     Val(final_df[i].permno) = PctScale * Val(PreWinsor[i].permno)

-----------------------------------------------------------------------------
(***************************************************************************)
(* merge_and_process_data from the ratios to the return (lines 394-794),   *)
(* for the columns atq and oibdpq and three ratios built from them.        *)
(* A float cell is <<>> (NaN), <<v>> (finite), PosInf or NegInf.           *)
(***************************************************************************)
MaxRatioRows == 2
LargeRows    == 102

PosInf == <<1, 0>>
NegInf == <<-1, 0>>
IsInf(c)    == Len(c) = 2

\* IEEE arithmetic on such cells
ExtNeg(x) == IF IsNA(x) THEN NA ELSE IF IsInf(x) THEN <<-x[1], 0>> ELSE Some(-Val(x))
ExtAdd(x, y) ==
    IF IsNA(x) \/ IsNA(y) THEN NA
    ELSE IF IsInf(x) THEN (IF IsInf(y) /\ y # x THEN NA ELSE x)
    ELSE IF IsInf(y) THEN y
    ELSE Some(Val(x) + Val(y))
ExtSub(x, y) == ExtAdd(x, ExtNeg(y))
\* x times a weight k >= 0: infinity times zero is NaN
ExtTimes(x, k) ==
    IF IsNA(x) THEN NA
    ELSE IF IsInf(x) THEN (IF k = 0 THEN NA ELSE x)
    ELSE Some(Val(x) * k)
ExtLeq(x, y) ==
    IF x = NegInf \/ y = PosInf THEN TRUE
    ELSE IF x = PosInf \/ y = NegInf THEN FALSE
    ELSE Val(x) <= Val(y)

\* Series / Series: division by zero gives an infinity, 0 / 0 gives NaN.
\* The values drawn divide without remainder.
Divide(x, y) ==
    IF IsNA(x) \/ IsNA(y) THEN NA
    ELSE IF Val(y) = 0
         THEN (IF Val(x) > 0 THEN PosInf ELSE IF Val(x) < 0 THEN NegInf ELSE NA)
    ELSE Some(Val(x) \div Val(y))

fillna(x, v) == IF IsNA(x) THEN Some(v) ELSE x

\* np.log of total assets, in hundredths: log(0) is -inf
Log(x) ==
    IF IsNA(x) THEN NA
    ELSE IF Val(x) = 0 THEN NegInf
    ELSE IF Val(x) = 1 THEN Some(0) ELSE Some(69)

RatioCols == {"atq", "oibdpq", "oibdp_atq", "ln_at", "roa_oibdp"}

\* lines 444-447, 511-512, 519-520 for one row
RatioRow(r) ==
    [atq |-> r.atq, oibdpq |-> r.oibdpq,
     oibdp_atq |-> Divide(r.oibdpq, r.atq),
     ln_at     |-> Log(r.atq),
     roa_oibdp |-> Divide(fillna(r.oibdpq, 0), r.atq)]

Ratios(df) == [i \in 1..Len(df) |-> RatioRow(df[i])]

\* the k-th smallest of the non-missing cells xs of a column (infinities
\* sort to the ends)
OrderStatistic(xs, k) ==
    LET n == Len(xs)
    IN CHOOSE v \in {xs[i] : i \in 1..n} :
          /\ Cardinality({j \in 1..n : ~ExtLeq(v, xs[j])}) < k
          /\ k <= Cardinality({j \in 1..n : ExtLeq(xs[j], v)})

\* Series.quantile(pct / 100) in hundredths.  Between order statistics a and
\* b with weight t = rem / 100, numpy >= 1.22 computes a + (b - a) t below
\* t = 0.5 and b - (b - a)(1 - t) from there on; older numpy computes
\* a (1 - t) + b t.  They agree on finite a, b and differ on infinite ones.
NumpyLerps == {"lerp", "weights"}
quantile_ext(xs, pct, lerp) ==
    LET n   == Len(xs)
        h   == pct * (n - 1)
        lo  == h \div PctScale
        rem == h % PctScale
        x   == OrderStatistic(xs, lo + 1)
        y   == OrderStatistic(xs, Min2(lo + 2, n))
    IN IF lerp = "weights"
       THEN ExtAdd(ExtTimes(x, PctScale - rem), ExtTimes(y, rem))
       ELSE IF 2 * rem < PctScale
       THEN ExtAdd(ExtTimes(x, PctScale), ExtTimes(ExtSub(y, x), rem))
       ELSE ExtSub(ExtTimes(y, PctScale), ExtTimes(ExtSub(y, x), PctScale - rem))

\* Series.clip(lower, upper) of one cell, in hundredths: a NaN bound is
\* ignored, NaN stays NaN
clip_ext(cell, lower, upper) ==
    IF IsNA(cell) THEN NA
    ELSE LET v  == ExtTimes(cell, PctScale)
             v1 == IF IsNA(upper) \/ ExtLeq(v, upper) THEN v ELSE upper
         IN IF IsNA(lower) \/ ExtLeq(lower, v1) THEN v1 ELSE lower

\* lines 680-689 for one column
WinsorizeExtColumn(cells, lerp) ==
    LET present == SelectSeq(cells, NotNA)
    IN IF present = <<>> THEN cells
       ELSE LET lower_bound == quantile_ext(present, LowerPct, lerp)
                upper_bound == quantile_ext(present, UpperPct, lerp)
            IN [i \in 1..Len(cells) |-> clip_ext(cells[i], lower_bound, upper_bound)]

WinsorizeRatios(df, lerp) ==
    LET w == [atq       |-> WinsorizeExtColumn(Column(df, "atq"), lerp),
              oibdpq    |-> WinsorizeExtColumn(Column(df, "oibdpq"), lerp),
              oibdp_atq |-> WinsorizeExtColumn(Column(df, "oibdp_atq"), lerp),
              ln_at     |-> WinsorizeExtColumn(Column(df, "ln_at"), lerp),
              roa_oibdp |-> WinsorizeExtColumn(Column(df, "roa_oibdp"), lerp)]
    IN [i \in 1..Len(df) |-> [c \in RatioCols |-> w[c][i]]]

\* line 700: replace([np.inf, -np.inf], np.nan) on the numeric columns
replace_inf(cell) == IF IsInf(cell) THEN NA ELSE cell

ReplaceInfinities(df) ==
    [i \in 1..Len(df) |-> [c \in RatioCols |-> replace_inf(df[i][c])]]

\* the accounting rows: assets 0, 1, 2 or missing; operating income
AcctCells == [atq : {NA, Some(0), Some(1), Some(2)},
              oibdpq : {NA, Some(0), Some(2), Some(-2)}]

Repeat(r, n) == [i \in 1..n |-> r]

\* small frames, and frames of LargeRows rows: firms with assets 1 and
\* operating income 2, and one more row at the end
AcctFrames ==
    SeqsUpTo(AcctCells, MaxRatioRows)
    \cup { Append(Repeat([atq |-> Some(1), oibdpq |-> Some(2)], LargeRows - 1), r) :
               r \in AcctCells }

InitRatio ==
    /\ MergeIdle /\ PipeIdle /\ CfgIdle /\ AggIdle /\ WvIdle /\ MoreIdle
    /\ acct_df \in AcctFrames
    /\ numpy_lerp \in NumpyLerps
    /\ ratio_df = <<>>
    /\ winsor_df = <<>>
    /\ clean_df = NA
    /\ final_files = [fmt \in Formats |-> NA]
    /\ returned_df = NA

\* lines 394-794; the Stata export at 738 may raise, which ends the function
\* after the CSV was written
RatiosToReturn ==
    /\ IsNA(clean_df)
    /\ LET ratios == Ratios(acct_df)
           wins   == WinsorizeRatios(ratios, numpy_lerp)
           clean  == ReplaceInfinities(wins)
       IN /\ ratio_df' = ratios
          /\ winsor_df' = wins
          /\ clean_df' = Some(clean)
          /\ \E stata_ok \in BOOLEAN :
                /\ final_files' = [fmt \in Formats |->
                                     IF fmt = "csv" \/ stata_ok THEN Some(clean) ELSE NA]
                /\ returned_df' = IF stata_ok THEN Some(clean) ELSE NA
    /\ UNCHANGED <<acct_df, numpy_lerp>>
    /\ UNCHANGED <<mergeVars, pipeVars, cfgVars, aggVars, wvVars, moreVars>>

NextRatio == RatiosToReturn

SpecRatio == InitRatio /\ [][NextRatio]_vars

(* Properties of the replacement of infinities *)

NoInfinity(df) ==
    \A i \in 1..Len(df) : \A c \in RatioCols : ~IsInf(df[i][c])

\* the cells that the ratio step made infinite are missing in df
InfinitiesMissing(df) ==
    /\ Len(df) = Len(ratio_df)
    /\ \A i \in 1..Len(df) : \A c \in RatioCols :
          IsInf(ratio_df[i][c]) => IsNA(df[i][c])

\* C20 as stated: the returned frame and every final file written hold no
\* infinite value, and every cell that a zero denominator or the logarithm of
\* zero assets made infinite is missing there, whatever bound winsorization
\* computed for its column.
C20_NoInfinities ==
    /\ NotNA(returned_df) =>
          NoInfinity(Val(returned_df)) /\ InfinitiesMissing(Val(returned_df))
    /\ \A fmt \in DOMAIN final_files :
          NotNA(final_files[fmt]) =>
              NoInfinity(Val(final_files[fmt])) /\ InfinitiesMissing(Val(final_files[fmt]))

\* the part of C20 that holds: no infinite value in the returned frame or
\* in a final file
C20_NoInfiniteValueLeft ==
    /\ NotNA(returned_df) => NoInfinity(Val(returned_df))
    /\ \A fmt \in DOMAIN final_files :
          NotNA(final_files[fmt]) => NoInfinity(Val(final_files[fmt]))

-----------------------------------------------------------------------------
(***************************************************************************)
(* merge_and_process_data lines 394-588: which ratio columns are derived.  *)
(* A frame is the set of its column names.  A rule is one guarded          *)
(* assignment: it runs when every column of `need` is a column of the      *)
(* frame and no column set of `unless` (the guards of the branches before  *)
(* it in an if / elif chain) is; it reads the columns `reads` (a column    *)
(* that is not there raises KeyError) and writes the columns `writes`.     *)
(***************************************************************************)
MaxPresent == 3
MaxAbsent  == 2

\* always there: the merge keys and the time variables
BaseCols == {"gvkey", "datadate", "year", "quarter"}

\* the columns that the guards of lines 394-588 test and that no line of
\* the function writes
OptionalCols ==
    {"dlttq", "dlcq", "debt_at", "assets", "prccq", "cshoq", "prc", "shares",
     "pstkq", "mibq", "cheq", "ffoq", "capxy", "atq", "oibdpq", "ceqq", "seqq",
     "niq", "ni", "dvpspq", "xrdq", "xintq", "txtq", "book_equity"}

Rule(need, unless, reads, writes) ==
    [need |-> need, unless |-> unless, reads |-> reads, writes |-> writes]

\* a rule whose guard names exactly what it reads
Guarded(need, writes) == Rule(need, {}, need, writes)

\* lines 463 and 468: if 'td' in columns, if 'atq' in columns
leverage_guard_without_assets == {"td"}
leverage_guard == {"td", "atq"}

RatioRules ==
    << Guarded({"dlttq", "dlcq"}, {"td"}),                                   \* 398
       Rule({"debt_at", "assets"}, {{"dlttq", "dlcq"}},
            {"debt_at", "assets"}, {"td"}),                                  \* 402
       Guarded({"prccq", "cshoq"}, {"mktcap"}),                              \* 407
       Rule({"prc", "shares"}, {{"prccq", "cshoq"}},
            {"prc", "shares"}, {"mktcap"}),                                  \* 411
       Guarded({"mktcap", "td"}, {"ev"}),                                    \* 417
       Guarded({"ffoq", "cshoq"}, {"ffopsq"}),                               \* 429
       Guarded({"ffoq", "capxy"}, {"affoq"}),                                \* 434
       Rule({"ffoq", "capxy", "atq"}, {}, {"affoq", "atq"}, {"affo_atq"}),   \* 436
       Guarded({"ffoq", "atq"}, {"ffo_atq"}),                                \* 439
       Guarded({"oibdpq", "atq"}, {"oibdp_atq"}),                            \* 444
       Guarded({"dlttq", "dlcq", "ceqq"}, {"invested_capital_q"}),           \* 450
       Guarded({"td", "seqq"}, {"debt_equity_ratio"}),                       \* 464
       Rule(leverage_guard, {}, {"td", "atq"},
            {"debt_assets_ratio", "lev"}),                                   \* 468
       Rule({"td", "assets"}, {{"atq"}}, {"td", "assets"},
            {"debt_assets_ratio", "lev"}),                                   \* 472
       Guarded({"niq", "atq"}, {"roa"}),                                     \* 478
       Rule({"ni", "assets"}, {{"niq", "atq"}}, {"ni", "assets"}, {"roa"}),  \* 481
       Guarded({"niq", "seqq"}, {"roe"}),                                    \* 486
       Guarded({"niq", "cshoq"}, {"eps"}),                                   \* 491
       Guarded({"dvpspq"}, {"dividend_per_share"}),                          \* 496
       Rule({"dvpspq", "eps"}, {}, {"dividend_per_share", "eps"},
            {"dividend_payout_ratio"}),                                      \* 498
       Guarded({"prccq", "eps"}, {"pe_ratio"}),                              \* 503
       Guarded({"atq"}, {"ln_at"}),                                          \* 511
       Rule({"assets"}, {{"atq"}}, {"assets"}, {"ln_at"}),                   \* 514
       Guarded({"oibdpq", "atq"}, {"roa_oibdp"}),                            \* 519
       Guarded({"xrdq", "atq"}, {"RDI", "RDI_no_fill"}),                     \* 524
       Guarded({"atq", "mktcap"}, {"tbq"}),                                  \* 531
       Guarded({"capxy", "atq"}, {"CAPEX"}),                                 \* 539
       Rule({"cheq", "atq"}, {}, {"gvkey", "datadate", "atq", "cheq"},
            {"lag_atq", "cash"}),                                            \* 544
       Rule({"cheq", "assets"}, {{"atq"}},
            {"gvkey", "datadate", "assets", "cheq"}, {"lag_assets", "cash"}),\* 544
       Guarded({"oibdpq", "atq"}, {"CF"}),                                   \* 556
       Guarded({"mktcap", "ceqq"}, {"bm"}),                                  \* 570
       Rule({"mktcap", "book_equity"}, {{"ceqq"}},
            {"mktcap", "book_equity"}, {"bm"}),                              \* 573
       Guarded({"txtq", "oibdpq"}, {"tax"}),                                 \* 578
       Guarded({"mktcap", "seqq"}, {"mtb"}) >>                               \* 583

Fires(rule, cols) ==
    /\ rule.need \subseteq cols
    /\ \A u \in rule.unless : ~(u \subseteq cols)

\* the rules from the i-th on, applied to a frame with columns cols
RECURSIVE DeriveFrom(_, _)
DeriveFrom(i, cols) ==
    IF i > Len(RatioRules) THEN [cols |-> cols, raised |-> FALSE]
    ELSE LET rule == RatioRules[i]
         IN IF ~Fires(rule, cols) THEN DeriveFrom(i + 1, cols)
            ELSE IF ~(rule.reads \subseteq cols) THEN [cols |-> cols, raised |-> TRUE]
            ELSE DeriveFrom(i + 1, cols \cup rule.writes)

DeriveRatios(cols) == DeriveFrom(1, cols)

\* the sets of at most n elements of S
RECURSIVE SubsetsUpTo(_, _)
SubsetsUpTo(S, n) ==
    IF n = 0 THEN {{}}
    ELSE LET smaller == SubsetsUpTo(S, n - 1)
         IN smaller \cup { T \cup {x} : T \in smaller, x \in S }

\* frames with few optional columns, and frames with nearly all of them
InputColumnSets ==
    { BaseCols \cup T : T \in SubsetsUpTo(OptionalCols, MaxPresent) }
    \cup { BaseCols \cup (OptionalCols \ T) : T \in SubsetsUpTo(OptionalCols, MaxAbsent) }

InitDerive ==
    /\ MergeIdle /\ PipeIdle /\ CfgIdle /\ AggIdle /\ WvIdle /\ RatioIdle
    /\ BalanceIdle /\ FilterIdle /\ ConcIdle /\ PairIdle
    /\ input_cols \in InputColumnSets
    /\ output_cols = NA
    /\ derive_raised = FALSE

Derive ==
    /\ IsNA(output_cols) /\ ~derive_raised
    /\ LET r == DeriveRatios(input_cols)
       IN /\ derive_raised' = r.raised
          /\ output_cols' = IF r.raised THEN NA ELSE Some(r.cols)
    /\ UNCHANGED input_cols
    /\ UNCHANGED <<mergeVars, pipeVars, cfgVars, aggVars, wvVars, ratioVars>>
    /\ UNCHANGED <<balanceVars, filterVars, concVars, pairVars>>

NextDerive == Derive

SpecDerive == InitDerive /\ [][NextDerive]_vars

(* Properties of the ratio derivation *)

DerivedCols == UNION { RatioRules[i].writes : i \in 1..Len(RatioRules) }

\* every column of the output that was not in the input is written by a
\* rule whose guard holds on the output and whose inputs are all there
AddedOnlyWithInputs(out) ==
    /\ input_cols \subseteq out
    /\ \A d \in out \ input_cols :
          \E i \in 1..Len(RatioRules) :
             /\ d \in RatioRules[i].writes
             /\ RatioRules[i].need \subseteq out
             /\ RatioRules[i].reads \subseteq out

Leverage == {"lev", "debt_assets_ratio"}

\* C21 as stated: the derivation raises for no set of input columns, a
\* derived column is added only when its inputs are present, and leverage
\* is in the output only if dlttq, dlcq and atq are in the input.
C21_AsStated ==
    /\ ~derive_raised
    /\ NotNA(output_cols) =>
          /\ AddedOnlyWithInputs(Val(output_cols))
          /\ (Leverage \cap Val(output_cols) # {} =>
                 {"dlttq", "dlcq", "atq"} \subseteq input_cols)

\* C21, amended: as above, but leverage is in the output only if the input
\* has the debt components (dlttq and dlcq) or the REIT columns debt_at and
\* assets, and has total assets as atq or as assets.
C21_GuardedDerivation ==
    /\ ~derive_raised
    /\ NotNA(output_cols) =>
          /\ AddedOnlyWithInputs(Val(output_cols))
          /\ (Leverage \cap Val(output_cols) # {} =>
                 /\ Leverage \subseteq Val(output_cols)
                 /\ \/ {"dlttq", "dlcq"} \subseteq input_cols
                    \/ {"debt_at", "assets"} \subseteq input_cols
                 /\ {"atq", "assets"} \cap input_cols # {})

\* the debt components are present and total assets are not: total debt is
\* derived, leverage is not
C21_Witness ==
    /\ NotNA(output_cols)
    /\ {"dlttq", "dlcq"} \subseteq input_cols
    /\ {"atq", "assets"} \cap input_cols = {}
    /\ "td" \in Val(output_cols)
    /\ Leverage \cap Val(output_cols) = {}

-----------------------------------------------------------------------------
(***************************************************************************)
(* check_panel_balance (panel_diagnostics.py 50-75); detect_panel_balance  *)
(* of scripts/validate_panel.py (20-49) computes the same classification.  *)
(* A panel is the set of its rows <<unit, period>>, without duplicates.    *)
(***************************************************************************)
MaxUnits   == 10
MaxPeriods == 10

\* A panel of units 1..u and periods 1..t with `holes` observations missing.
\* The missing ones are the first cells, unit by unit, among those with
\* unit > 1 and period > 1, so every unit and every period is still seen.
HoleIndex(u, t, cell) == (cell[1] - 2) * (t - 1) + (cell[2] - 1)
Panel(u, t, holes) ==
    { cell \in (1..u) \X (1..t) :
         cell[1] = 1 \/ cell[2] = 1 \/ HoleIndex(u, t, cell) > holes }

\* the thresholds of lines 61 and 63, in percent
BalancedPct       == 95
MostlyBalancedPct == 70

\* lines 61-66.  balance_ratio is total / expected as a float; for counts of
\* this size the float comparison with 0.95 and 0.7 agrees with the exact one.
panel_type(total, expected) ==
    LET ratio_pct_num == IF expected > 0 THEN 100 * total ELSE 0
        e == IF expected > 0 THEN expected ELSE 1
    IN IF ratio_pct_num > BalancedPct * e THEN "balanced"
       ELSE IF ratio_pct_num > MostlyBalancedPct * e THEN "mostly_balanced"
       ELSE "unbalanced"

check_panel_balance(df) ==
    LET n_units      == Cardinality({ row[1] : row \in df })
        n_periods    == Cardinality({ row[2] : row \in df })
        total_obs    == Cardinality(df)
        balanced_obs == n_units * n_periods
    IN [panel_type |-> panel_type(total_obs, balanced_obs),
        n_units |-> n_units, n_periods |-> n_periods, total_obs |-> total_obs,
        expected_obs_if_balanced |-> balanced_obs,
        \* balance_ratio as the fraction <<numerator, denominator>>
        balance_ratio |-> IF balanced_obs > 0 THEN <<total_obs, balanced_obs>>
                          ELSE <<0, 1>>]

InitBalance ==
    /\ MergeIdle /\ PipeIdle /\ CfgIdle /\ AggIdle /\ WvIdle /\ RatioIdle
    /\ DeriveIdle /\ FilterIdle /\ ConcIdle /\ PairIdle
    /\ \E u \in 0..MaxUnits, t \in 0..MaxPeriods :
          \E holes \in 0..Max2((u - 1) * (t - 1), 0) :
             panel_df = Panel(u, t, holes)
    /\ balance = NA

CheckPanelBalance ==
    /\ IsNA(balance)
    /\ balance' = Some(check_panel_balance(panel_df))
    /\ UNCHANGED panel_df
    /\ UNCHANGED <<mergeVars, pipeVars, cfgVars, aggVars, wvVars, ratioVars>>
    /\ UNCHANGED <<deriveVars, filterVars, concVars, pairVars>>

NextBalance == CheckPanelBalance

SpecBalance == InitBalance /\ [][NextBalance]_vars

(* Properties of the balance classification *)

\* the ratio of the returned dictionary is pct percent
RatioIs(pct) ==
    LET r == Val(balance).balance_ratio IN 100 * r[1] = pct * r[2]

\* C22: with ratio = observed rows / (distinct units * distinct periods), a
\* panel at exactly 0.95 is 'balanced', one at 0.94 is 'mostly_balanced',
\* one at 0.69 is 'unbalanced', and a panel with zero expected observations
\* has ratio 0 and is 'unbalanced'.
C22_BalanceThresholds ==
    NotNA(balance) =>
       /\ Val(balance).expected_obs_if_balanced > 0 =>
             Val(balance).balance_ratio =
                <<Cardinality(panel_df), Val(balance).expected_obs_if_balanced>>
       /\ RatioIs(95) => Val(balance).panel_type = "balanced"
       /\ RatioIs(94) => Val(balance).panel_type = "mostly_balanced"
       /\ RatioIs(69) => Val(balance).panel_type = "unbalanced"
       /\ Val(balance).expected_obs_if_balanced = 0 =>
             RatioIs(0) /\ Val(balance).panel_type = "unbalanced"

\* the cases of C22 other than the one at exactly 0.95
C22_OtherCases ==
    NotNA(balance) =>
       /\ RatioIs(94) => Val(balance).panel_type = "mostly_balanced"
       /\ RatioIs(69) => Val(balance).panel_type = "unbalanced"
       /\ Val(balance).expected_obs_if_balanced = 0 =>
             RatioIs(0) /\ Val(balance).panel_type = "unbalanced"

-----------------------------------------------------------------------------
(***************************************************************************)
(* The column list of a Compustat query: _filter_available_columns         *)
(* (query_templates.py 24-37) and its use in pull_compustat_annual         *)
(* (217-238, 257) and pull_compustat_quarterly (299-322, 341).             *)
(* Names are sequences of characters, as in the config helpers.            *)
(***************************************************************************)
MaxRequested == 4

\* the names a variable list is drawn from; n_dvpsp is in no table
RequestPool == {n_gvkey, n_datadate, n_capx, n_CAPX, n_atq, n_dvpsp}

\* the fields of the live table: the keys, and some of the others
TableSchemas ==
    { {n_gvkey, n_datadate} \cup T : T \in SUBSET {n_capx, n_atq, n_rdq} }

\* line 29: {c.lower() for c in conn.list_table_fields(library, table)}
available_cols(fields) == { Lower(c) : c \in fields }

\* the test of lines 33-34: col.lower() in available_cols
col_available_case_sensitive(col, available) == col \in available
col_available(col, available) == Lower(col) \in available

\* line 33
RECURSIVE filtered(_, _)
filtered(cols, available) ==
    IF cols = <<>> THEN <<>>
    ELSE IF col_available(Head(cols), available)
    THEN <<Head(cols)>> \o filtered(Tail(cols), available)
    ELSE filtered(Tail(cols), available)

\* line 34
RECURSIVE missing(_, _)
missing(cols, available) ==
    IF cols = <<>> THEN <<>>
    ELSE IF ~col_available(Head(cols), available)
    THEN <<Head(cols)>> \o missing(Tail(cols), available)
    ELSE missing(Tail(cols), available)

_filter_available_columns(cols, fields) ==
    LET available == available_cols(fields)
    IN [filtered |-> filtered(cols, available),
        warned   |-> missing(cols, available) # <<>>]

\* conn.raw_sql of SELECT <cols> FROM the table: the database rejects a
\* column it does not have (unquoted identifiers fold to lower case) and
\* names the columns of the result in lower case
QueryRejected(cols, fields) ==
    \E i \in 1..Len(cols) : Lower(cols[i]) \notin available_cols(fields)
ResultColumns(cols) == { Lower(cols[i]) : i \in 1..Len(cols) }

\* lines 233-238 and 257: the query, the merge with company_info on 'gvkey'
\* and the conversion of 'datadate' need these columns in the result
PullRaises(cols, fields) ==
    \/ QueryRejected(cols, fields)
    \/ n_gvkey \notin ResultColumns(cols)
    \/ n_datadate \notin ResultColumns(cols)

InitFilter ==
    /\ MergeIdle /\ PipeIdle /\ CfgIdle /\ AggIdle /\ WvIdle /\ RatioIdle
    /\ DeriveIdle /\ BalanceIdle /\ ConcIdle /\ PairIdle
    /\ requested_cols \in SeqsUpTo(RequestPool, MaxRequested)
    /\ table_fields \in TableSchemas
    /\ select_cols = NA
    /\ filter_warned = FALSE
    /\ pull_failed = FALSE

FilterAndQuery ==
    /\ IsNA(select_cols)
    /\ LET f == _filter_available_columns(requested_cols, table_fields)
       IN /\ select_cols' = Some(f.filtered)
          /\ filter_warned' = f.warned
          /\ pull_failed' = PullRaises(f.filtered, table_fields)
    /\ UNCHANGED <<requested_cols, table_fields>>
    /\ UNCHANGED <<mergeVars, pipeVars, cfgVars, aggVars, wvVars, ratioVars>>
    /\ UNCHANGED <<deriveVars, balanceVars, concVars, pairVars>>

NextFilter == FilterAndQuery

SpecFilter == InitFilter /\ [][NextFilter]_vars

(* Properties of the column filter *)

InSchema(name) ==
    \E field \in table_fields : Lower(field) = Lower(name)

Requested(name) ==
    \E i \in 1..Len(requested_cols) : Lower(requested_cols[i]) = name

\* C23: the SELECT holds exactly the requested names that exist in the
\* schema, compared without regard to case, in their requested order; a
\* requested name that is absent is dropped with a warning; no absent
\* column is in the query; and the pull does not fail when the keys it
\* needs were requested, whatever other names are absent.
C23_ColumnsDegradeGracefully ==
    NotNA(select_cols) =>
       /\ Val(select_cols) = SelectSeq(requested_cols, InSchema)
       /\ \A i \in 1..Len(Val(select_cols)) : InSchema(Val(select_cols)[i])
       /\ filter_warned <=>
             (\E i \in 1..Len(requested_cols) : ~InSchema(requested_cols[i]))
       /\ (Requested(n_gvkey) /\ Requested(n_datadate)) => ~pull_failed

\* an upper-case name was kept, an absent name was dropped with the warning,
\* and the pull went through
C23_Witness ==
    /\ NotNA(select_cols)
    /\ \E i \in 1..Len(Val(select_cols)) : Val(select_cols)[i] = n_CAPX
    /\ Requested(n_dvpsp)
    /\ filter_warned
    /\ ~pull_failed

-----------------------------------------------------------------------------
(***************************************************************************)
(* Two invocations of one puller stage against the same output directory   *)
(* (pull_compustat_annual / _quarterly with _save_data_files,              *)
(* query_templates.py 149-179 and 200-254; pull_crsp_data, crsp_utils.py   *)
(* 47-142).  Nothing in the code takes a lock or writes to a temporary     *)
(* file: to_pickle, to_csv and to_stata open the target path for writing.  *)
(* A write takes time; the steps of the two invocations interleave.        *)
(***************************************************************************)
Runs == {1, 2}

\* what a file holds: the content left by an earlier run, the frame an
\* invocation queried, or bytes of two writes that overlapped
OldContent    == [origin |-> "old"]
RunContent(r) == [origin |-> "run", run |-> r]
TornContent   == [origin |-> "torn"]

At(label, i) == [pc |-> label, i |-> i]

\* DataFrame.to_pickle / to_csv / to_stata on a path: the file is opened
\* with mode 'wb' / 'w', whatever it held
written_keep_existing(before, content) == IF NotNA(before) THEN before ELSE Some(content)
written(before, content) == Some(content)

ConcFormat(r) == WriteOrder(conc_stage)[run[r].i]

\* after the i-th file: the next one, or the stage returns
AfterFile(i) ==
    IF i < Len(WriteOrder(conc_stage)) THEN At("write", i + 1) ELSE At("done", 0)

InitConc ==
    /\ MergeIdle /\ PipeIdle /\ CfgIdle /\ AggIdle /\ WvIdle /\ RatioIdle
    /\ DeriveIdle /\ BalanceIdle /\ FilterIdle /\ PairIdle
    /\ conc_stage \in PullerStages
    /\ conc_refresh \in BOOLEAN
    /\ \E cache \in {"absent", "full"} :
          conc_files0 = [f \in {conc_stage} \X Formats |->
                            IF cache = "absent" THEN NA ELSE Some(OldContent)]
    /\ conc_files = conc_files0
    /\ run = [r \in Runs |-> At("test", 0)]
    /\ in_progress = [fmt \in Formats |-> {}]
    /\ overlapped = [r \in Runs |-> FALSE]
    /\ last_write = [fmt \in Formats |-> NA]

ConcFrame ==
    /\ UNCHANGED <<conc_stage, conc_refresh, conc_files0>>
    /\ UNCHANGED <<mergeVars, pipeVars, cfgVars, aggVars, wvVars, ratioVars>>
    /\ UNCHANGED <<deriveVars, balanceVars, filterVars, pairVars>>

\* the cache test at stage entry (query_templates.py 200 / 284,
\* crsp_utils.py 47)
CacheTest(r) ==
    /\ run[r].pc = "test"
    /\ run' = [run EXCEPT ![r] =
                  IF CacheMiss(conc_refresh, conc_files, conc_stage)
                  THEN At("query", 0) ELSE At("read", 0)]
    /\ UNCHANGED <<conc_files, in_progress, overlapped, last_write>>
    /\ ConcFrame

\* pd.read_pickle of the cache (254 / 338 / 142): raises on a file that is
\* gone, being written or torn
ReadCache(r) ==
    /\ run[r].pc = "read"
    /\ LET cell == conc_files[<<conc_stage, "pkl">>]
       IN run' = [run EXCEPT ![r] =
                     IF IsNA(cell) \/ in_progress["pkl"] # {} \/ Val(cell) = TornContent
                     THEN At("failed", 0) ELSE At("done", 0)]
    /\ UNCHANGED <<conc_files, in_progress, overlapped, last_write>>
    /\ ConcFrame

\* connection, queries and close: the frame is in memory, or an exception
\* leaves the stage
ConcQuery(r) ==
    /\ run[r].pc = "query"
    /\ \E ok \in BOOLEAN :
          run' = [run EXCEPT ![r] = IF ok THEN At("write", 1) ELSE At("failed", 0)]
    /\ UNCHANGED <<conc_files, in_progress, overlapped, last_write>>
    /\ ConcFrame

\* the write of the next file begins
BeginWrite(r) ==
    /\ run[r].pc = "write"
    /\ LET fmt == ConcFormat(r)
       IN /\ in_progress' = [in_progress EXCEPT ![fmt] = @ \cup {r}]
          /\ overlapped' = [q \in Runs |->
                               IF q = r THEN in_progress[fmt] # {}
                               ELSE overlapped[q] \/ q \in in_progress[fmt]]
    /\ run' = [run EXCEPT ![r] = At("writing", run[r].i)]
    /\ UNCHANGED <<conc_files, last_write>>
    /\ ConcFrame

\* to_stata raises before it writes; the pullers catch it (174-179, 133-138)
StataFails(r) ==
    /\ run[r].pc = "write"
    /\ ConcFormat(r) = "dta"
    /\ stata_failure_caught(conc_stage)
    /\ run' = [run EXCEPT ![r] = AfterFile(run[r].i)]
    /\ UNCHANGED <<conc_files, in_progress, overlapped, last_write>>
    /\ ConcFrame

\* the write ends: the file holds the frame of this invocation, or, when
\* another write of the same file ran meanwhile, possibly bytes of both
EndWrite(r) ==
    /\ run[r].pc = "writing"
    /\ LET fmt == ConcFormat(r)
           f   == <<conc_stage, fmt>>
       IN /\ \E content \in {RunContent(r)}
                             \cup (IF overlapped[r] THEN {TornContent} ELSE {}) :
                conc_files' = [conc_files EXCEPT ![f] = written(@, content)]
          /\ in_progress' = [in_progress EXCEPT ![fmt] = @ \ {r}]
          /\ last_write' = [last_write EXCEPT ![fmt] =
                               Some([run |-> r, overlapped |-> overlapped[r]])]
    /\ overlapped' = [overlapped EXCEPT ![r] = FALSE]
    /\ run' = [run EXCEPT ![r] = AfterFile(run[r].i)]
    /\ ConcFrame

NextConc ==
    \E r \in Runs :
       \/ CacheTest(r)
       \/ ReadCache(r)
       \/ ConcQuery(r)
       \/ BeginWrite(r)
       \/ StataFails(r)
       \/ EndWrite(r)

SpecConc == InitConc /\ [][NextConc]_vars

(* Properties of concurrent invocations *)

AllEnded == \A r \in Runs : run[r].pc \in {"done", "failed"}

FileOf(fmt) == conc_files[<<conc_stage, fmt>>]

-----------------------------------------------------------------------------
(* Properties of the pipeline: connections, queries and cache files *)

EventsAt(stage, evs) ==
    { i \in 1..Len(trace) : trace[i][1] = stage /\ trace[i][2] \in evs }

Connects(stage) == EventsAt(stage, {"connect"})
Closes(stage)   == EventsAt(stage, {"close"})

\* C25: when a puller stage returns normally, every connection it opened
\* was closed before the stage wrote a cache file and before it returned;
\* and when every puller stage that ran has returned, no connection is open.
C25_ClosedOnSuccess ==
    /\ \A s \in PullerStages :
          Returns(s) =>
             \A i \in Connects(s) :
                \E j \in Closes(s) :
                   /\ i < j
                   /\ \A k \in EventsAt(s, {"write", "dta_failed", "return"}) : j < k
    /\ (\A s \in PullerStages : Ran(s) => Returns(s)) => open_conns = 0

\* a live pull returned: connected, closed, wrote its files
C25_Witness ==
    /\ Returns("quarterly")
    /\ Connects("quarterly") # {}
    /\ HappenedWith("quarterly", "write", "pkl")
    /\ open_conns = 0

\* C26: if a query of a puller stage (schema lookup, company query, data
\* query) raised, the stage was left by the exception and the connection it
\* had opened was never closed: it is still open.
C26_LeakOnQueryFailure ==
    \A s \in PullerStages :
       Happened(s, "query_failed") =>
          /\ Raises(s)
          /\ Connects(s) # {}
          /\ Closes(s) = {}
          /\ open_conns >= 1

\* the company query of the quarterly pull raised and left a connection open
C26_Witness ==
    /\ HappenedWith("quarterly", "query_failed", "company")
    /\ Raises("quarterly")
    /\ open_conns = 1

TimesIssued(stage, q) ==
    Cardinality({ i \in EventsAt(stage, {"query", "query_failed"}) : trace[i][3] = q })

LaterStages(stage) ==
    { StageOrder[i] : i \in (IndexOf(stage) + 1)..Len(StageOrder) }

\* C27: a stage issues each of its database queries at most once and
\* connects at most once; and when a query raised, the stage was left by
\* the exception and, in a run of main, main was left by it too, the run is
\* over and no later stage ran.
C27_NoRetry ==
    \A s \in PullerStages :
       /\ \A q \in SeqToSet(Queries(s)) : TimesIssued(s, q) <= 1
       /\ Cardinality(EventsAt(s, {"connect", "connect_failed"})) <= 1
       /\ Happened(s, "query_failed") =>
             /\ Raises(s)
             /\ trace[Len(trace)] = Ev(s, "raise", "")
             /\ trace[Len(trace) - 1][2] = "query_failed"
             /\ caller = "main" =>
                   /\ Raises("main")
                   /\ pc = "failed"
                   /\ \A t \in LaterStages(s) : ~Ran(t)

\* the data query of the annual pull raised in a run of main
C27_Witness ==
    /\ caller = "main"
    /\ HappenedWith("annual", "query_failed", "data")
    /\ pc = "failed"
    /\ ~Ran("quarterly")

\* C28: when a query of a puller stage raised, the stage's three cache
\* files are as they were at its entry; the pickle is written only after
\* all the queries of the stage have returned, so a pickle that the stage
\* changed comes from a pull whose queries all went through.
C28_NoFilesOnQueryFailure ==
    \A s \in PullerStages :
       /\ Happened(s, "query_failed") => OwnFilesUntouched(s)
       /\ \A i \in EventsAt(s, {"write"}) :
             \A q \in SeqToSet(Queries(s)) :
                \E j \in 1..(i - 1) : trace[j] = Ev(s, "query", q)
       /\ (Ran(s) /\ FileNow(s, "pkl") # FileAtEntry(s, "pkl")) =>
             /\ ~Happened(s, "query_failed")
             /\ \A q \in SeqToSet(Queries(s)) : HappenedWith(s, "query", q)

\* a refresh over a full cache whose data query raised: the old files stay
C28_Witness ==
    /\ REFRESH_DATA
    /\ HappenedWith("annual", "query_failed", "data")
    /\ \A fmt \in Formats :
          NotNA(FileNow("annual", fmt)) /\ FileNow("annual", fmt) = FileAtEntry("annual", fmt)

\* C29: at most one connection is open at any moment; a stage connects
\* only when every connection made before was closed; and a run opens at
\* most three connections.
C29_OneConnectionAtATime ==
    /\ open_conns <= 1
    /\ opened <= 3
    /\ opened = Cardinality(EventsAt("annual", {"connect"}) \cup
                            EventsAt("quarterly", {"connect"}) \cup
                            EventsAt("crsp", {"connect"}))
    /\ \A s \in PullerStages : \A i \in Connects(s) :
          \A t \in PullerStages : \A j \in Connects(t) :
             j < i => \E k \in Closes(t) : j < k /\ k < i

\* a run of main that pulled everything live: three connections, none open
C29_Witness ==
    /\ caller = "main" /\ pc = "done"
    /\ opened = 3
    /\ open_conns = 0

-----------------------------------------------------------------------------
(***************************************************************************)
(* pull_crsp_data (crsp_utils.py 26-204) by the table it returns, called   *)
(* twice with two Compustat frames against one output directory.  Of a     *)
(* Compustat frame the function reads the cusip column only (line 64).     *)
(***************************************************************************)
Cusips == {"c1", "c2"}

CusipOf(permno) == IF permno = 1 THEN "c1" ELSE "c2"

\* crsp.msf: two months of security 1 and one month of security 2
CrspMsf ==
    <<MonthlyRow(1, 1, [prc |-> Some(7), shrout |-> Some(2), ret |-> Some(2),
                        retx |-> Some(1), vol |-> Some(4)]),
      MonthlyRow(1, 2, [prc |-> Some(-5), shrout |-> Some(3), ret |-> Some(-1),
                        retx |-> NA, vol |-> Some(1)]),
      MonthlyRow(2, 1, [prc |-> Some(7), shrout |-> NA, ret |-> Some(5),
                        retx |-> Some(-1), vol |-> Some(2)])>>

\* the query of lines 76-89: the rows whose CUSIP is in the list, in the
\* order of the table (ORDER BY permno, date)
InCusipList(cusips, row) == CusipOf(row.permno) \in cusips
QueryMsf(cusips) ==
    LET Wanted(row) == InCusipList(cusips, row)
    IN SelectSeq(CrspMsf, Wanted)

PairFiles(cache, compustat) ==
    [f \in {<<"crsp", "pkl">>, <<"quarterly", "pkl">>} |->
        IF f[1] = "crsp" THEN cache ELSE compustat]

NoneResult        == [status |-> "returned", none |-> TRUE, table |-> <<>>]
TableResult(tbl)  == [status |-> "returned", none |-> FALSE, table |-> tbl]
RaisedResult      == [status |-> "raised", none |-> TRUE, table |-> <<>>]

\* one call: the CRSP pickle afterwards and the result
pull_crsp_data(arg, refresh, cache, compustat, query_fails) ==
    LET fs == PairFiles(cache, compustat)
    IN IF CacheMiss(refresh, fs, "crsp")
       THEN IF IsNA(arg) /\ crsp_without_compustat(fs) = "return_none"
            THEN [cache |-> cache, result |-> NoneResult]
            ELSE IF IsNA(arg) /\ IsNA(compustat)
            THEN [cache |-> cache, result |-> RaisedResult]
            ELSE IF query_fails
            THEN [cache |-> cache, result |-> RaisedResult]
            ELSE LET cusips == IF NotNA(arg) THEN Val(arg) ELSE Val(compustat)
                     crsp_rows == QueryMsf(cusips)
                 IN [cache |-> Some(crsp_rows),
                     result |-> TableResult(aggregate(crsp_rows))]
       ELSE [cache |-> cache, result |-> TableResult(aggregate(Val(cache)))]

CusipSets == {NA} \cup { Some(S) : S \in SUBSET Cusips }

InitPair ==
    /\ MergeIdle /\ PipeIdle /\ CfgIdle /\ AggIdle /\ WvIdle /\ RatioIdle
    /\ DeriveIdle /\ BalanceIdle /\ FilterIdle /\ ConcIdle
    /\ pair_args \in CusipSets \X CusipSets
    /\ pair_refresh \in BOOLEAN
    /\ pair_compustat \in CusipSets
    /\ pair_cache0 \in {NA} \cup { Some(QueryMsf(S)) : S \in SUBSET Cusips }
    /\ pair_cache = pair_cache0
    /\ pair_results = <<>>

\* the first call, then the second on the files the first one left
CallTwice ==
    /\ pair_results = <<>>
    /\ \E fails1, fails2 \in BOOLEAN :
          LET first  == pull_crsp_data(pair_args[1], pair_refresh, pair_cache,
                                       pair_compustat, fails1)
              second == pull_crsp_data(pair_args[2], pair_refresh, first.cache,
                                       pair_compustat, fails2)
          IN /\ pair_results' = <<first.result, second.result>>
             /\ pair_cache' = second.cache
    /\ UNCHANGED <<pair_args, pair_refresh, pair_compustat, pair_cache0>>
    /\ UNCHANGED <<mergeVars, pipeVars, cfgVars, aggVars, wvVars, ratioVars>>
    /\ UNCHANGED <<deriveVars, balanceVars, filterVars, concVars>>

NextPair == CallTwice

SpecPair == InitPair /\ [][NextPair]_vars

(* Properties of the CRSP cache hit *)

CrspCacheHit == ~pair_refresh /\ NotNA(pair_cache0)

\* C30: on a CRSP cache hit (REFRESH_DATA false, the CRSP pickle exists) two
\* calls of pull_crsp_data return the same quarterly table whatever their
\* compustat_df arguments are: the aggregate of the cached rows; and the
\* cache file is left as it was.
C30_CacheHitIgnoresCompustat ==
    (CrspCacheHit /\ pair_results # <<>>) =>
       /\ pair_results[1] = pair_results[2]
       /\ pair_results[1] = TableResult(aggregate(Val(pair_cache0)))
       /\ pair_cache = pair_cache0

\* a cache pulled for the firm c1 is returned to a call for c1 and to a call
\* for c2
C30_Witness ==
    /\ CrspCacheHit
    /\ pair_cache0 = Some(QueryMsf({"c1"}))
    /\ pair_args = <<Some({"c1"}), Some({"c2"})>>
    /\ pair_results # <<>>
    /\ pair_results[2] = TableResult(aggregate(QueryMsf({"c1"})))
    /\ pair_results[2] # TableResult(aggregate(QueryMsf({"c2"})))

=============================================================================
